---- MODULE Spec2Model ----
(***************************************************************************)
(* Model of the I2E invoice-text extraction engine                         *)
(* (src/shared/pdf-extractor.js).                                          *)
(*                                                                         *)
(* Text is modelled as what it is: a string is a sequence of one-character *)
(* strings, a page is the sequence of its lines (pageText.split('\n')),    *)
(* a document is the sequence of its pages.  Every regular expression of   *)
(* the source is translated into an operator that scans the characters.    *)
(* Numbers are held in thousandths (1234.56 is 1234560).                   *)
(***************************************************************************)
EXTENDS Integers, Sequences, FiniteSets, TLC

\* const x = value; body : the value is computed once and named x in body
Let(value, Body(_)) == Body(value)

(***************************************************************************)
(* Characters and JavaScript string primitives                             *)
(***************************************************************************)
Digits == {"0", "1", "2", "3", "4", "5", "6", "7", "8", "9"}

UpperLetters ==
    {"A", "B", "C", "D", "E", "F", "G", "H", "I", "J", "K", "L", "M",
     "N", "O", "P", "Q", "R", "S", "T", "U", "V", "W", "X", "Y", "Z"}

LowerLetters ==
    {"a", "b", "c", "d", "e", "f", "g", "h", "i", "j", "k", "l", "m",
     "n", "o", "p", "q", "r", "s", "t", "u", "v", "w", "x", "y", "z"}

LowerMap ==
    [c \in UpperLetters |->
        CASE c = "A" -> "a" [] c = "B" -> "b" [] c = "C" -> "c" [] c = "D" -> "d"
          [] c = "E" -> "e" [] c = "F" -> "f" [] c = "G" -> "g" [] c = "H" -> "h"
          [] c = "I" -> "i" [] c = "J" -> "j" [] c = "K" -> "k" [] c = "L" -> "l"
          [] c = "M" -> "m" [] c = "N" -> "n" [] c = "O" -> "o" [] c = "P" -> "p"
          [] c = "Q" -> "q" [] c = "R" -> "r" [] c = "S" -> "s" [] c = "T" -> "t"
          [] c = "U" -> "u" [] c = "V" -> "v" [] c = "W" -> "w" [] c = "X" -> "x"
          [] c = "Y" -> "y" [] c = "Z" -> "z"]

\* String.prototype.toLowerCase, one character
Lower(c) == IF c \in UpperLetters THEN LowerMap[c] ELSE c

toLowerCase(s) == [i \in 1..Len(s) |-> Lower(s[i])]

DigitVal(c) ==
    CASE c = "0" -> 0 [] c = "1" -> 1 [] c = "2" -> 2 [] c = "3" -> 3 [] c = "4" -> 4
      [] c = "5" -> 5 [] c = "6" -> 6 [] c = "7" -> 7 [] c = "8" -> 8 [] c = "9" -> 9

\* regex classes \d, \w, \s, [0-9.,], [A-Z0-9]
IsDigit(c) == c \in Digits
IsWordChar(c) == c \in Digits \cup UpperLetters \cup LowerLetters \cup {"_"}
IsSpace(c) == c \in {" ", "\n"}
IsNumChar(c) == c \in Digits \cup {".", ","}
IsUpperAlnum(c) == c \in Digits \cup UpperLetters

\* the literal lit occurs in s at position i (1-based); ci: the regex flag i
LitAt(s, i, lit, ci) ==
    /\ i >= 1
    /\ i + Len(lit) - 1 <= Len(s)
    /\ \A k \in 1..Len(lit) :
          IF ci THEN Lower(s[i + k - 1]) = Lower(lit[k]) ELSE s[i + k - 1] = lit[k]

\* String.prototype.includes
includes(s, lit) == \E i \in 1..(Len(s) + 1) : LitAt(s, i, lit, FALSE)

\* case-insensitive substring test: /lit/i.test(s)
TestLitI(s, lit) == \E i \in 1..(Len(s) + 1) : LitAt(s, i, lit, TRUE)

\* the regex assertion \b between positions i-1 and i of s
WordBoundary(s, i) ==
    Let(i >= 2 /\ i - 1 <= Len(s) /\ IsWordChar(s[i - 1]), LAMBDA before :
    Let(i >= 1 /\ i <= Len(s) /\ IsWordChar(s[i]), LAMBDA after :
        before # after))

\* /\blit\b/i matches s at position i
WordAt(s, i, lit) ==
    /\ LitAt(s, i, lit, TRUE)
    /\ WordBoundary(s, i)
    /\ WordBoundary(s, i + Len(lit))

\* length of the run of characters satisfying the class, starting at i
RECURSIVE RunLen(_, _, _)
RunLen(s, i, cls) ==
    IF i <= Len(s) /\ s[i] \in cls THEN 1 + RunLen(s, i + 1, cls) ELSE 0

SpaceChars == {" ", "\n"}
NumChars == Digits \cup {".", ","}

(***************************************************************************)
(* JavaScript values: a number (in thousandths), NaN, null                 *)
(***************************************************************************)
Num(n) == [k |-> "num", v |-> n]
NaN == [k |-> "NaN", v |-> 0]
Null == [k |-> "null", v |-> 0]

IsNum(x) == x.k = "num"

\* Math.abs(x) > Math.abs(y) for numbers; any comparison with NaN is false
AbsGreater(x, y) ==
    /\ IsNum(x)
    /\ IsNum(y)
    /\ (IF x.v < 0 THEN 0 - x.v ELSE x.v) > (IF y.v < 0 THEN 0 - y.v ELSE y.v)

\* x || 0 : null, NaN and 0 are falsy
OrZero(x) == IF IsNum(x) THEN x ELSE Num(0)

\* value of a string of decimal digits
RECURSIVE DigitsVal(_)
DigitsVal(s) ==
    IF Len(s) = 0 THEN 0
    ELSE 10 * DigitsVal(SubSeq(s, 1, Len(s) - 1)) + DigitVal(s[Len(s)])

\* the first three fraction digits of s, as thousandths
FracVal(s) ==
    Let([i \in 1..3 |-> IF i <= Len(s) THEN DigitVal(s[i]) ELSE 0], LAMBDA d :
        100 * d[1] + 10 * d[2] + d[3])

\* parseFloat on a string that starts with neither white space nor a sign:
\* the longest prefix  digits [ "." digits ]  is read, the rest is ignored.
parseFloat(s) ==
    Let(RunLen(s, 1, Digits), LAMBDA n1 :
    Let(n1 + 1 <= Len(s) /\ s[n1 + 1] = ".", LAMBDA hasDot :
    Let(IF hasDot THEN RunLen(s, n1 + 2, Digits) ELSE 0, LAMBDA n2 :
        IF n1 = 0 /\ n2 = 0 THEN NaN
        ELSE Num(1000 * DigitsVal(SubSeq(s, 1, n1))
                 + FracVal(SubSeq(s, n1 + 2, n1 + 1 + n2))))))

\* String.prototype.lastIndexOf for one character (0-based, -1 when absent)
lastIndexOf(s, c) ==
    Let({i \in 1..Len(s) : s[i] = c}, LAMBDA P :
        IF P = {} THEN 0 - 1 ELSE (CHOOSE i \in P : \A j \in P : j <= i) - 1)

\* s.replace(c, r) with a string pattern: only the first occurrence
ReplaceFirst(s, c, r) ==
    Let({i \in 1..Len(s) : s[i] = c}, LAMBDA P :
        IF P = {} THEN s
        ELSE Let(CHOOSE i \in P : \A j \in P : i <= j, LAMBDA i :
                 SubSeq(s, 1, i - 1) \o r \o SubSeq(s, i + 1, Len(s))))

\* s.replace(/c/g, '')
RemoveAll(s, c) == SelectSeq(s, LAMBDA x : x # c)

\* a ',' anywhere makes the format European, wherever the '.' stands
parseAmountCommaDecimal(amountStr) ==
    Let(Len(amountStr) > 0 /\ amountStr[Len(amountStr)] = "-", LAMBDA isNegative :
    Let(ReplaceFirst(amountStr, "-", <<>>), LAMBDA cleanAmount :
    Let(\E i \in 1..Len(cleanAmount) : cleanAmount[i] = ",", LAMBDA european :
    Let(IF european
        THEN ReplaceFirst(RemoveAll(cleanAmount, "."), ",", <<".">>)
        ELSE RemoveAll(cleanAmount, ","),
        LAMBDA normal :
    Let(parseFloat(normal), LAMBDA amount :
        IF isNegative /\ IsNum(amount) THEN Num(0 - amount.v) ELSE amount)))))

parseAmountNoGuard(amountStr) ==
    Let(Len(amountStr) > 0 /\ amountStr[Len(amountStr)] = "-", LAMBDA isNegative :
    Let(ReplaceFirst(amountStr, "-", <<>>), LAMBDA cleanAmount :
    Let(/\ \E i \in 1..Len(cleanAmount) : cleanAmount[i] = ","
        /\ lastIndexOf(cleanAmount, ",") > lastIndexOf(cleanAmount, "."),
        LAMBDA european :
    Let(IF european
        THEN ReplaceFirst(RemoveAll(cleanAmount, "."), ",", <<".">>)
        ELSE RemoveAll(cleanAmount, ","),
        LAMBDA normal :
    Let(parseFloat(normal), LAMBDA amount :
        IF isNegative /\ IsNum(amount) THEN Num(0 - amount.v) ELSE amount)))))

\* parseAmount(amountStr).  An absent string (undefined) is modelled by the
\* empty string: every use of a possibly absent string in the source treats
\* the two alike (!amountStr, x || '').
parseAmount(amountStr) ==
    IF Len(amountStr) = 0 THEN Null ELSE parseAmountNoGuard(amountStr)

(***************************************************************************)
(* String literals of the source                                           *)
(***************************************************************************)
sTotal == <<"t", "o", "t", "a", "l">>
sSubtotal == <<"s", "u", "b", "t", "o", "t", "a", "l">>
sNetOpen == <<"(", "n", "e", "t">>
sNet == <<"(", "n", "e", "t", ")">>
sPosition == <<"p", "o", "s", "i", "t", "i", "o", "n">>
sVat == <<"v", "a", "t">>
sGrand == <<"g", "r", "a", "n", "d">>
sArrow == <<" ", "-", ">", " ">>

\* String.prototype.trim
RECURSIVE TrimLeft(_)
TrimLeft(s) == IF Len(s) > 0 /\ IsSpace(s[1]) THEN TrimLeft(Tail(s)) ELSE s

RECURSIVE TrimRight(_)
TrimRight(s) ==
    IF Len(s) > 0 /\ IsSpace(s[Len(s)]) THEN TrimRight(SubSeq(s, 1, Len(s) - 1)) ELSE s

trim(s) == TrimRight(TrimLeft(s))

\* String.prototype.indexOf(sub, from): 0-based, -1 when absent
indexOf(s, sub, from) ==
    Let({i \in (from + 1)..(Len(s) + 1) : LitAt(s, i, sub, FALSE)}, LAMBDA P :
        IF P = {} THEN 0 - 1 ELSE (CHOOSE i \in P : \A j \in P : i <= j) - 1)

\* least element of a non-empty set of integers
Least(P) == CHOOSE i \in P : \A j \in P : i <= j

(***************************************************************************)
(* extractInvoiceTotal: the regular expressions of the line scan           *)
(***************************************************************************)
\* /\b(Total|Subtotal.*\(Net\)|Subtotal)\b/i.test(line)
TestTotalWord(line) ==
    \/ \E i \in 1..Len(line) : WordAt(line, i, sTotal)
    \/ \E i \in 1..Len(line) : WordAt(line, i, sSubtotal)
    \/ \E i \in 1..Len(line) :
          /\ WordBoundary(line, i)
          /\ LitAt(line, i, sSubtotal, TRUE)
          /\ \E j \in (i + 8)..Len(line) :
                LitAt(line, j, sNet, TRUE) /\ WordBoundary(line, j + 5)

\* /Position.*Total/i.test(line)
TestPositionTotal(line) ==
    \E i \in 1..Len(line) :
        /\ LitAt(line, i, sPosition, TRUE)
        /\ \E j \in (i + 8)..Len(line) : LitAt(line, j, sTotal, TRUE)

\* /VAT\s+[0-9.,]+%/i.test(line)
TestVatLine(line) ==
    \E i \in 1..Len(line) :
        /\ LitAt(line, i, sVat, TRUE)
        /\ Let(RunLen(line, i + 3, SpaceChars), LAMBDA w :
           Let(RunLen(line, i + 3 + w, NumChars), LAMBDA n :
               /\ w >= 1
               /\ n >= 1
               /\ i + 3 + w + n <= Len(line)
               /\ line[i + 3 + w + n] = "%"))

\* /\bTotal\b/i.test(line) && !/Subtotal/i.test(line)
IsMainTotalLine(line) ==
    /\ \E i \in 1..Len(line) : WordAt(line, i, sTotal)
    /\ ~TestLitI(line, sSubtotal)

\* end (inclusive) of the match of /\b(Total|Subtotal.*?\(Net\)?)\b/i that
\* starts at i, 0 when there is none
TotalWordEndAt(line, i) ==
    IF WordAt(line, i, sTotal) THEN i + 4
    ELSE IF WordBoundary(line, i) /\ LitAt(line, i, sSubtotal, TRUE)
    THEN Let([j \in (i + 8)..Len(line) |->
                IF ~LitAt(line, j, sNetOpen, TRUE) THEN 0
                ELSE IF j + 4 <= Len(line) /\ line[j + 4] = ")"
                        /\ WordBoundary(line, j + 5) THEN j + 4
                ELSE IF WordBoundary(line, j + 4) THEN j + 3
                ELSE 0],
             LAMBDA ends :
         Let({j \in (i + 8)..Len(line) : ends[j] # 0}, LAMBDA J :
             IF J = {} THEN 0 ELSE ends[Least(J)]))
    ELSE 0

\* line.match(/\b(Total|Subtotal.*?\(Net\)?)\b/i): the matched text, <<>> for null
totalWordMatch(line) ==
    Let({i \in 1..Len(line) : TotalWordEndAt(line, i) # 0}, LAMBDA I :
        IF I = {} THEN <<>>
        ELSE SubSeq(line, Least(I), TotalWordEndAt(line, Least(I))))

\* number of consecutive groups [.,][0-9]{3} starting at p
RECURSIVE AmountGroups(_, _)
AmountGroups(s, p) ==
    IF /\ p + 3 <= Len(s)
       /\ s[p] \in {".", ","}
       /\ IsDigit(s[p + 1]) /\ IsDigit(s[p + 2]) /\ IsDigit(s[p + 3])
    THEN 1 + AmountGroups(s, p + 4)
    ELSE 0

\* end (inclusive) of the match of
\* /([0-9]{1,3}(?:[.,][0-9]{3})*[.,][0-9]{2}[-]?)/ that starts at i, 0 when
\* there is none; the quantifiers are greedy, so the longest digit prefix and
\* then the largest number of groups that lets the rest match is taken
AmountEndAt(s, i) ==
    Let(RunLen(s, i, Digits), LAMBDA digitsAt :
    LET TailOk(p) == /\ p + 2 <= Len(s)
                     /\ s[p] \in {".", ","}
                     /\ IsDigit(s[p + 1]) /\ IsDigit(s[p + 2])
    IN
    Let({nk \in (1..3) \X (0..Len(s)) :
            /\ nk[1] <= digitsAt
            /\ nk[2] <= AmountGroups(s, i + nk[1])
            /\ TailOk(i + nk[1] + 4 * nk[2])},
        LAMBDA Ok :
        IF Ok = {} THEN 0
        ELSE Let(CHOOSE nk \in Ok : \A o \in Ok :
                    \/ o[1] < nk[1]
                    \/ (o[1] = nk[1] /\ o[2] <= nk[2]),
                 LAMBDA best :
             Let(i + best[1] + 4 * best[2] + 2, LAMBDA e :
                 IF e + 1 <= Len(s) /\ s[e + 1] = "-" THEN e + 1 ELSE e))))

\* s.match(/([0-9]{1,3}(?:[.,][0-9]{3})*[.,][0-9]{2}[-]?)/g) from position
\* from on: the matched texts in order (the empty sequence for null)
RECURSIVE AmountMatches(_, _)
AmountMatches(s, from) ==
    Let({i \in from..Len(s) : AmountEndAt(s, i) # 0}, LAMBDA I :
        IF I = {} THEN <<>>
        ELSE Let(Least(I), LAMBDA i :
             Let(AmountEndAt(s, i), LAMBDA e :
                 <<SubSeq(s, i, e)>> \o AmountMatches(s, e + 1))))

\* pageText.split('\n')
RECURSIVE SplitLines(_)
SplitLines(s) ==
    Let({i \in 1..Len(s) : s[i] = "\n"}, LAMBDA P :
        IF P = {} THEN <<s>>
        ELSE <<SubSeq(s, 1, Least(P) - 1)>> \o SplitLines(SubSeq(s, Least(P) + 1, Len(s))))

\* lines.join('\n')
RECURSIVE JoinLines(_)
JoinLines(lines) ==
    IF Len(lines) = 0 THEN <<>>
    ELSE IF Len(lines) = 1 THEN lines[1]
    ELSE lines[1] \o <<"\n">> \o JoinLines(Tail(lines))

\* the loop over sameLineMatch: the amount of largest absolute value above 1
\* among the matches found again within 50 characters after the total word
RECURSIVE BestSameLineAmount(_, _, _, _, _)
BestSameLineAmount(line, matches, k, totalWordEnd, bestAmount) ==
    IF k > Len(matches) THEN bestAmount
    ELSE Let(matches[k], LAMBDA amountStr :
         Let(indexOf(line, amountStr, totalWordEnd), LAMBDA amountIndex :
         Let(parseAmount(amountStr), LAMBDA amount :
         Let(/\ amountIndex # 0 - 1
             /\ amountIndex - totalWordEnd < 50
             /\ amount # Null
             /\ AbsGreater(amount, Num(1000))
             /\ AbsGreater(amount, OrZero(bestAmount)),
             LAMBDA take :
             BestSameLineAmount(line, matches, k + 1, totalWordEnd,
                                IF take THEN amount ELSE bestAmount)))))

\* the loop over amountMatch of a following line: the largest amount
RECURSIVE LargestAmount(_, _, _)
LargestAmount(matches, k, largestAmount) ==
    IF k > Len(matches) THEN largestAmount
    ELSE Let(parseAmount(matches[k]), LAMBDA amount :
         Let(amount # Null /\ AbsGreater(amount, OrZero(largestAmount)), LAMBDA take :
             LargestAmount(matches, k + 1, IF take THEN amount ELSE largestAmount)))

PotentialTotal(amount, isMainTotal, lineText) ==
    [amount |-> amount,
     type |-> IF isMainTotal THEN "Total" ELSE "Subtotal",
     line |-> lineText,
     priority |-> IF isMainTotal THEN 1 ELSE 2]

\* the loop over the next lines j = i+1 .. min(i+3, lines.length)-1: the
\* entries it pushes (none or one, it breaks after the first)
RECURSIVE NextLineTotals(_, _, _, _)
NextLineTotals(lines, i, j, isMainTotal) ==
    IF j > i + 2 \/ j > Len(lines) THEN <<>>
    ELSE Let(lines[j], LAMBDA checkLine :
         Let(AmountMatches(checkLine, 1), LAMBDA amountMatch :
         Let(LargestAmount(amountMatch, 1, Null), LAMBDA largestAmount :
             IF TestVatLine(checkLine) THEN NextLineTotals(lines, i, j + 1, isMainTotal)
             ELSE IF /\ amountMatch # <<>>
                     /\ largestAmount # Null
                     /\ AbsGreater(largestAmount, Num(1000))
             THEN <<PotentialTotal(largestAmount, isMainTotal,
                                   trim(lines[i]) \o sArrow \o trim(checkLine))>>
             ELSE NextLineTotals(lines, i, j + 1, isMainTotal))))

\* one iteration of the line loop: potentialTotals after line i
ScanLine(lines, i, potentialTotals) ==
    Let(lines[i], LAMBDA line :
    Let(totalWordMatch(line), LAMBDA twm :
    Let(IsMainTotalLine(line), LAMBDA isMainTotal :
    Let(AmountMatches(line, 1), LAMBDA sameLineMatch :
    Let(indexOf(line, twm, 0) + Len(twm), LAMBDA totalWordEnd :
    Let(BestSameLineAmount(line, sameLineMatch, 1, totalWordEnd, Null), LAMBDA bestAmount :
    Let(IF sameLineMatch # <<>> /\ twm # <<>> /\ bestAmount # Null
        THEN Append(potentialTotals,
                    PotentialTotal(bestAmount, isMainTotal, trim(line)))
        ELSE potentialTotals,
        LAMBDA afterSame :
    Let(\/ sameLineMatch = <<>>
        \/ ~\E t \in 1..Len(afterSame) : afterSame[t].line = trim(line),
        LAMBDA tryNext :
        IF ~(TestTotalWord(line) /\ ~TestPositionTotal(line)) THEN potentialTotals
        ELSE IF TestVatLine(line) THEN potentialTotals
        ELSE IF tryNext THEN afterSame \o NextLineTotals(lines, i, i + 1, isMainTotal)
        ELSE afterSame))))))))

RECURSIVE ScanLines(_, _, _)
ScanLines(lines, i, potentialTotals) ==
    IF i > Len(lines) THEN potentialTotals
    ELSE ScanLines(lines, i + 1, ScanLine(lines, i, potentialTotals))

\* the array potentialTotals of extractInvoiceTotal, after its stable sort by
\* priority (entries of equal priority keep their order)
potentialTotalsOf(pageText) ==
    Let(ScanLines(SplitLines(pageText), 1, <<>>), LAMBDA collected :
        SelectSeq(collected, LAMBDA t : t.priority = 1)
            \o SelectSeq(collected, LAMBDA t : t.priority = 2))

(***************************************************************************)
(* extractInvoiceTotal: the fallback patterns totalPatterns[0..7]          *)
(***************************************************************************)
\* end of [0-9.,]{min,}[-]? starting at p, 0 when it does not match
NumberEndAt(s, p, min) ==
    Let(RunLen(s, p, NumChars), LAMBDA n :
        IF n < min \/ n = 0 THEN 0
        ELSE IF p + n <= Len(s) /\ s[p + n] = "-" THEN p + n ELSE p + n - 1)

\* end of \s+[0-9.,]+[-]? starting at p
SpacesNumberEndAt(s, p) ==
    Let(RunLen(s, p, SpaceChars), LAMBDA w :
        IF w = 0 THEN 0 ELSE NumberEndAt(s, p + w, 1))

\* end of Subtotal\s*\(Net\)\s+[0-9.,]+[-]? starting at p
SubtotalNetEndAt(s, p) ==
    Let(RunLen(s, p + 8, SpaceChars), LAMBDA w :
        IF LitAt(s, p, sSubtotal, TRUE) /\ LitAt(s, p + 8 + w, sNet, TRUE)
        THEN SpacesNumberEndAt(s, p + 8 + w + 5)
        ELSE 0)

\* end of kw[\s\S]{0,50}?([0-9.,]{4,}[-]?) starting at p: the lazy gap takes
\* the first position within 50 characters where four number characters start
NearbyEndAt(s, p, kw) ==
    Let({g \in 0..50 : NumberEndAt(s, p + Len(kw) + g, 4) # 0}, LAMBDA G :
        IF LitAt(s, p, kw, TRUE) /\ G # {}
        THEN NumberEndAt(s, p + Len(kw) + Least(G), 4)
        ELSE 0)

\* end (inclusive) of the match of totalPatterns[pat-1] that starts at i
PatternEndAt(pat, s, i) ==
    CASE pat = 1 -> IF LitAt(s, i, sTotal, TRUE) THEN SpacesNumberEndAt(s, i + 5) ELSE 0
      [] pat = 2 -> IF LitAt(s, i, sTotal, TRUE)
                    THEN Let(RunLen(s, i + 5, SpaceChars), LAMBDA w1 :
                         Let(IF i + 5 + w1 <= Len(s) /\ s[i + 5 + w1] = ":"
                             THEN 1 ELSE 0,
                             LAMBDA c :
                         Let(RunLen(s, i + 5 + w1 + c, SpaceChars), LAMBDA w2 :
                             NumberEndAt(s, i + 5 + w1 + c + w2, 1))))
                    ELSE 0
      [] pat = 3 -> IF LitAt(s, i, sSubtotal, TRUE) THEN SpacesNumberEndAt(s, i + 8) ELSE 0
      [] pat = 4 -> Let(RunLen(s, i + 5, SpaceChars), LAMBDA w :
                        IF LitAt(s, i, sGrand, TRUE) /\ w >= 1
                           /\ LitAt(s, i + 5 + w, sTotal, TRUE)
                        THEN SpacesNumberEndAt(s, i + 5 + w + 5)
                        ELSE 0)
      [] pat = 5 -> SubtotalNetEndAt(s, i)
      [] pat = 6 -> Let(RunLen(s, i, Digits \cup UpperLetters \cup LowerLetters \cup {"_"}), LAMBDA a :
                    Let(RunLen(s, i + a, SpaceChars), LAMBDA w1 :
                    Let(RunLen(s, i + a + w1, Digits), LAMBDA d :
                    Let(RunLen(s, i + a + w1 + d, SpaceChars), LAMBDA w2 :
                        IF a >= 1 /\ w1 >= 1 /\ d >= 1 /\ w2 >= 1
                        THEN SubtotalNetEndAt(s, i + a + w1 + d + w2)
                        ELSE 0))))
      [] pat = 7 -> NearbyEndAt(s, i, sTotal)
      [] pat = 8 -> NearbyEndAt(s, i, sSubtotal)

\* pageText.match(pattern) with the flag g: the last of the matches found
\* from position from on, <<>> when there is none
RECURSIVE LastPatternMatch(_, _, _, _)
LastPatternMatch(pat, s, from, last) ==
    Let({i \in from..Len(s) : PatternEndAt(pat, s, i) # 0}, LAMBDA I :
        IF I = {} THEN last
        ELSE Let(Least(I), LAMBDA i :
             Let(PatternEndAt(pat, s, i), LAMBDA e :
                 LastPatternMatch(pat, s, e + 1, SubSeq(s, i, e)))))

\* lastMatch.match(/([0-9.,]+[-]?)/): the first run of number characters
FirstNumber(s) ==
    Let({i \in 1..Len(s) : IsNumChar(s[i])}, LAMBDA I :
        IF I = {} THEN <<>> ELSE SubSeq(s, Least(I), NumberEndAt(s, Least(I), 1)))

\* the loop over totalPatterns: the first pattern whose last match has an
\* amount that is neither null nor 0 decides
RECURSIVE FallbackTotal(_, _)
FallbackTotal(pageText, pat) ==
    IF pat > 8 THEN Null
    ELSE Let(LastPatternMatch(pat, pageText, 1, <<>>), LAMBDA lastMatch :
         Let(FirstNumber(lastMatch), LAMBDA amountMatch :
         Let(parseAmount(amountMatch), LAMBDA amount :
             IF lastMatch # <<>> /\ amountMatch # <<>>
                /\ amount # Null /\ amount # Num(0)
             THEN amount
             ELSE FallbackTotal(pageText, pat + 1))))

extractInvoiceTotal(pageText) ==
    Let(potentialTotalsOf(pageText), LAMBDA potentialTotals :
        IF Len(potentialTotals) > 0 THEN potentialTotals[1].amount
        ELSE FallbackTotal(pageText, 1))

(***************************************************************************)
(* extractInvoiceData: the page-level tests behind a candidate's priority  *)
(***************************************************************************)
\* pageText.match(/.*Total.*$/im)?.[0] || '' : the first line that contains
\* "total" in any case, '' when no line does
FirstTotalLine(pageText) ==
    Let(SplitLines(pageText), LAMBDA lines :
    Let({i \in 1..Len(lines) : TestLitI(lines[i], sTotal)}, LAMBDA I :
        IF I = {} THEN <<>> ELSE lines[Least(I)]))

\* /\bTotal\b/i.test(pageText) && !/Subtotal/i.test(first "total" line)
hasMainTotal(pageText) ==
    /\ \E i \in 1..Len(pageText) : WordAt(pageText, i, sTotal)
    /\ ~TestLitI(FirstTotalLine(pageText), sSubtotal)

\* /\bTotal\b(?!.*Subtotal)/i.test(pageText): a whole word Total with no
\* "subtotal" after it on its line
TestTotalNotBeforeSubtotal(pageText) ==
    \E i \in 1..Len(pageText) :
        /\ WordAt(pageText, i, sTotal)
        /\ Let(SubSeq(pageText, i + 5, Len(pageText)), LAMBDA rest :
           Let({j \in 1..Len(rest) : rest[j] = "\n"}, LAMBDA nl :
           Let(IF nl = {} THEN rest ELSE SubSeq(rest, 1, Least(nl) - 1), LAMBDA restOfLine :
               ~TestLitI(restOfLine, sSubtotal))))

hasSubtotalOnly(pageText) ==
    /\ TestLitI(pageText, sSubtotal)
    /\ ~TestTotalNotBeforeSubtotal(pageText)

\* priority: hasMainTotal ? 1 : (hasSubtotalOnly ? 3 : 2)
PagePriority(pageText) ==
    IF hasMainTotal(pageText) THEN 1 ELSE IF hasSubtotalOnly(pageText) THEN 3 ELSE 2

(***************************************************************************)
(* extractServicePeriodFromPage                                            *)
(***************************************************************************)
MonthAbbrs ==
    <<<<"j", "a", "n">>, <<"f", "e", "b">>, <<"m", "a", "r">>, <<"a", "p", "r">>, <<"m", "a", "y">>, <<"j", "u", "n">>,
      <<"j", "u", "l">>, <<"a", "u", "g">>, <<"s", "e", "p">>, <<"o", "c", "t">>, <<"n", "o", "v">>, <<"d", "e", "c">>>>

\* monthMap / monthNames
MonthNames ==
    <<<<"J", "a", "n", "u", "a", "r", "y">>,
      <<"F", "e", "b", "r", "u", "a", "r", "y">>,
      <<"M", "a", "r", "c", "h">>,
      <<"A", "p", "r", "i", "l">>,
      <<"M", "a", "y">>,
      <<"J", "u", "n", "e">>,
      <<"J", "u", "l", "y">>,
      <<"A", "u", "g", "u", "s", "t">>,
      <<"S", "e", "p", "t", "e", "m", "b", "e", "r">>,
      <<"O", "c", "t", "o", "b", "e", "r">>,
      <<"N", "o", "v", "e", "m", "b", "e", "r">>,
      <<"D", "e", "c", "e", "m", "b", "e", "r">>>>

sUnknownPeriod == <<"U", "n", "k", "n", "o", "w", "n", " ", "P", "e", "r", "i", "o", "d">>
sService == <<"s", "e", "r", "v", "i", "c", "e">>
sPeriod == <<"p", "e", "r", "i", "o", "d">>

AllDigits(s, from, n) ==
    from >= 1 /\ from + n - 1 <= Len(s) /\ \A k \in 0..(n - 1) : IsDigit(s[from + k])

\* /\b(JAN|...|DEC)\s+(\d{4})\b/i at position i: <<month index, year>> or <<>>
MonthPatternAt(s, i) ==
    Let({m \in 1..12 : LitAt(s, i, MonthAbbrs[m], TRUE)}, LAMBDA M :
    Let(RunLen(s, i + 3, SpaceChars), LAMBDA w :
    Let(i + 3 + w, LAMBDA y :
        IF /\ M # {}
           /\ WordBoundary(s, i)
           /\ w >= 1
           /\ AllDigits(s, y, 4)
           /\ WordBoundary(s, y + 4)
        THEN <<CHOOSE m \in M : TRUE, SubSeq(s, y, y + 3)>>
        ELSE <<>>)))

\* (\d{1,2})[./](\d{4}) at position p: <<month digits, year>> or <<>>
MonthYearAt(s, p) ==
    LET Sep(q) == q <= Len(s) /\ s[q] \in {".", "/"}
    IN
        IF AllDigits(s, p, 2) /\ Sep(p + 2) /\ AllDigits(s, p + 3, 4)
        THEN <<SubSeq(s, p, p + 1), SubSeq(s, p + 3, p + 6)>>
        ELSE IF AllDigits(s, p, 1) /\ Sep(p + 1) /\ AllDigits(s, p + 2, 4)
        THEN <<SubSeq(s, p, p), SubSeq(s, p + 2, p + 5)>>
        ELSE <<>>

\* :?\s*(\d{1,2})[./](\d{4}) at position p
ColonMonthYearAt(s, p) ==
    Let(IF p <= Len(s) /\ s[p] = ":" THEN 1 ELSE 0, LAMBDA c :
    Let(RunLen(s, p + c, SpaceChars), LAMBDA w :
        MonthYearAt(s, p + c + w)))

\* the characters from a to b-1 contain no line break ('.' does not match it)
NoBreak(s, a, b) == \A k \in a..(b - 1) : s[k] # "\n"

\* pageText.match(/Service.*?Period.*?:?\s*(\d{1,2})[./](\d{4})/i): the
\* leftmost "service", then (both gaps are lazy) the nearest "period" and the
\* nearest position after it from which the rest matches
ServicePeriodMatch(s) ==
    LET Ps(j) == {p \in (j + 6)..(Len(s) + 1) :
                     NoBreak(s, j, p) /\ ColonMonthYearAt(s, p) # <<>>}
    IN
    LET Js(i) == {j \in (i + 7)..Len(s) :
                     LitAt(s, j, sPeriod, TRUE) /\ NoBreak(s, i, j) /\ Ps(j) # {}}
    IN
    Let({i \in 1..Len(s) : LitAt(s, i, sService, TRUE) /\ Js(i) # {}}, LAMBDA Is :
        IF Is = {} THEN <<>>
        ELSE ColonMonthYearAt(s, Least(Ps(Least(Js(Least(Is)))))))

\* pageText.match(/\b(\d{1,2})[./](\d{4})\b/)
BareMonthYearAt(s, i) ==
    Let(MonthYearAt(s, i), LAMBDA m :
        IF m # <<>> /\ WordBoundary(s, i)
           /\ WordBoundary(s, i + Len(m[1]) + 5) THEN m ELSE <<>>)

BareMonthYearMatch(s) ==
    Let({i \in 1..Len(s) : BareMonthYearAt(s, i) # <<>>}, LAMBDA I :
        IF I = {} THEN <<>> ELSE BareMonthYearAt(s, Least(I)))

\* the loop over fallbackPatterns
RECURSIVE PeriodFallback(_, _)
PeriodFallback(pageText, k) ==
    IF k > 2 THEN sUnknownPeriod
    ELSE Let(IF k = 1 THEN ServicePeriodMatch(pageText)
             ELSE BareMonthYearMatch(pageText),
             LAMBDA fallbackMatch :
         Let(DigitsVal(fallbackMatch[1]), LAMBDA month :
             IF fallbackMatch # <<>> /\ month >= 1 /\ month <= 12
             THEN MonthNames[month] \o <<" ">> \o fallbackMatch[2]
             ELSE PeriodFallback(pageText, k + 1)))

\* the fallback patterns tried before the month abbreviation
extractServicePeriodFallbackFirst(pageText) ==
    Let({i \in 1..Len(pageText) : MonthPatternAt(pageText, i) # <<>>}, LAMBDA I :
        IF PeriodFallback(pageText, 1) # sUnknownPeriod \/ I = {}
        THEN PeriodFallback(pageText, 1)
        ELSE Let(MonthPatternAt(pageText, Least(I)), LAMBDA match :
                 MonthNames[match[1]] \o <<" ">> \o match[2]))

extractServicePeriodFromPage(pageText) ==
    Let({i \in 1..Len(pageText) : MonthPatternAt(pageText, i) # <<>>}, LAMBDA I :
        IF I # {}
        THEN Let(MonthPatternAt(pageText, Least(I)), LAMBDA match :
                 MonthNames[match[1]] \o <<" ">> \o match[2])
        ELSE PeriodFallback(pageText, 1))

(***************************************************************************)
(* extractField(text, 'vat')                                               *)
(***************************************************************************)
sId == <<"i", "d">>
sBtw == <<"b", "t", "w">>
AlnumChars == Digits \cup UpperLetters \cup LowerLetters

\* \s*:?\s*([A-Z0-9]+) with the flag i at position p: the capture or <<>>
ColonAlnumAt(s, p) ==
    Let(RunLen(s, p, SpaceChars), LAMBDA w1 :
    Let(IF p + w1 <= Len(s) /\ s[p + w1] = ":" THEN 1 ELSE 0, LAMBDA c :
    Let(RunLen(s, p + w1 + c, SpaceChars), LAMBDA w2 :
    Let(p + w1 + c + w2, LAMBDA q :
    Let(RunLen(s, q, AlnumChars), LAMBDA n :
        IF n >= 1 THEN SubSeq(s, q, q + n - 1) ELSE <<>>)))))

\* /VAT\s*ID\s*:?\s*([A-Z0-9]+)/i at position i
VatIdAt(s, i) ==
    Let(RunLen(s, i + 3, SpaceChars), LAMBDA w :
        IF LitAt(s, i, sVat, TRUE) /\ LitAt(s, i + 3 + w, sId, TRUE)
        THEN ColonAlnumAt(s, i + 3 + w + 2)
        ELSE <<>>)

\* /BTW\s*:?\s*([A-Z0-9]+)/i at position i
BtwAt(s, i) ==
    IF LitAt(s, i, sBtw, TRUE) THEN ColonAlnumAt(s, i + 3) ELSE <<>>

\* extractField(text, 'vat'): the first pattern that matches gives the
\* capture, null (here <<>>) when none matches
extractFieldVat(text) ==
    Let({i \in 1..Len(text) : VatIdAt(text, i) # <<>>}, LAMBDA I1 :
    Let({i \in 1..Len(text) : BtwAt(text, i) # <<>>}, LAMBDA I2 :
        IF I1 # {} THEN VatIdAt(text, Least(I1))
        ELSE IF I2 # {} THEN BtwAt(text, Least(I2))
        ELSE <<>>))

(***************************************************************************)
(* classifyCostType                                                        *)
(***************************************************************************)
sApplication == <<"a", "p", "p", "l", "i", "c", "a", "t", "i", "o", "n">>
sInfrastructure == <<"i", "n", "f", "r", "a", "s", "t", "r", "u", "c", "t", "u", "r", "e">>
sExternal == <<"e", "x", "t", "e", "r", "n", "a", "l">>
sOther == <<"o", "t", "h", "e", "r">>
sConsultant == <<"c", "o", "n", "s", "u", "l", "t", "a", "n", "t">>
sServiceWord == <<"s", "e", "r", "v", "i", "c", "e">>
sSupport == <<"s", "u", "p", "p", "o", "r", "t">>

\* the External keywords checked before the Internal ones
classifyCostTypeExternalFirst(description) ==
    Let(toLowerCase(description), LAMBDA descLower :
        IF \/ includes(descLower, sExternal) \/ includes(descLower, sOther)
           \/ includes(descLower, sConsultant) \/ includes(descLower, sServiceWord)
           \/ includes(descLower, sSupport)
        THEN "External"
        ELSE "Internal")

classifyCostType(description) ==
    Let(toLowerCase(description), LAMBDA descLower :
        IF includes(descLower, sApplication) \/ includes(descLower, sInfrastructure)
        THEN "Internal"
        ELSE IF includes(descLower, sExternal) \/ includes(descLower, sOther)
        THEN "External"
        ELSE IF \/ includes(descLower, sConsultant)
                \/ includes(descLower, sServiceWord)
                \/ includes(descLower, sSupport)
        THEN "External"
        ELSE "Internal")

(***************************************************************************)
(* extractLineItems                                                        *)
(***************************************************************************)
sUnknownService == <<"U", "n", "k", "n", "o", "w", "n", " ", "S", "e", "r", "v", "i", "c", "e">>
sServiceItem == <<"S", "e", "r", "v", "i", "c", "e", " ", "I", "t", "e", "m">>
sPU == <<"P", "U">>

\* x || dflt for strings: the empty (or absent) string is falsy
OrStr(x, dflt) == IF Len(x) = 0 THEN dflt ELSE x

\* parts[i] of a JavaScript array, 1-based here; absent elements read as ''
At(parts, i) == IF i >= 1 /\ i <= Len(parts) THEN parts[i] ELSE <<>>

\* s.split(/\s+/)
RECURSIVE SplitSpaces(_)
SplitSpaces(s) ==
    Let({i \in 1..Len(s) : IsSpace(s[i])}, LAMBDA P :
        IF P = {} THEN <<s>>
        ELSE Let(Least(P), LAMBDA i :
             Let(RunLen(s, i, SpaceChars), LAMBDA w :
                 <<SubSeq(s, 1, i - 1)>> \o SplitSpaces(SubSeq(s, i + w, Len(s))))))

\* end (inclusive) of the match of \d+[.,]?\d*%\([A-Z0-9]+\) that starts at
\* i, 0 when there is none
VatEndAt(s, i) ==
    Let(RunLen(s, i, Digits), LAMBDA n1 :
    Let(IF i + n1 <= Len(s) /\ s[i + n1] \in {".", ","} THEN 1 ELSE 0, LAMBDA sep :
    Let(RunLen(s, i + n1 + sep, Digits), LAMBDA n2 :
    Let(i + n1 + sep + n2, LAMBDA p :
    Let(RunLen(s, p + 2, Digits \cup UpperLetters), LAMBDA m :
        IF /\ n1 >= 1
           /\ p + 1 <= Len(s) /\ s[p] = "%" /\ s[p + 1] = "("
           /\ m >= 1
           /\ p + 2 + m <= Len(s) /\ s[p + 2 + m] = ")"
        THEN p + 2 + m
        ELSE 0)))))

\* /\d+[.,]?\d*%\([A-Z0-9]+\)/.test(s)
TestVatAnchor(s) == \E i \in 1..Len(s) : VatEndAt(s, i) # 0

\* /\b(Subtotal|Total)\b/i.test(line) && !/Position.*Total/i.test(line)
IsBoundaryAny(line) ==
    \/ \E i \in 1..Len(line) : WordAt(line, i, sSubtotal)
    \/ \E i \in 1..Len(line) : WordAt(line, i, sTotal)

IsBoundary(line) ==
    /\ \/ \E i \in 1..Len(line) : WordAt(line, i, sSubtotal)
       \/ \E i \in 1..Len(line) : WordAt(line, i, sTotal)
    /\ ~TestPositionTotal(line)

\* the filter of candidateLines
IsCandidateLine(line) ==
    Let(trim(line), LAMBDA trimmed :
        Len(trimmed) > 20 /\ TestVatAnchor(trimmed))

LineItem(position, material, description, quantity, unit, vat, unitPrice, total, cost) ==
    [position |-> position,
     material |-> material,
     positionDescription |-> description,
     positionQuantity |-> quantity,
     unit |-> unit,
     vat |-> vat,
     unitPrice |-> unitPrice,
     positionTotal |-> total,
     typeCost |-> cost]

\* end of a token of the class cls that starts at p and is followed by white
\* space, 0 when there is none:  cls+ followed by \s+
TokenEndAt(s, p, cls) ==
    Let(RunLen(s, p, cls), LAMBDA n :
        IF n >= 1 /\ p + n <= Len(s) /\ IsSpace(s[p + n]) THEN p + n - 1 ELSE 0)

\* the part of structuredPattern after the description, tried at position q:
\* \s+(\d+[.,]?\d*)\s+([A-Z]+)\s+(VAT)\s+([\d.,]+)\s+([\d.,]+-?)
\* gives <<start, end>> of the five captures, <<>> when it does not match
StructuredRestAt(s, q) ==
    Let(RunLen(s, q, SpaceChars), LAMBDA w0 :
    Let(q + w0, LAMBDA a :
    Let(RunLen(s, a, Digits), LAMBDA n1 :
    Let(IF a + n1 <= Len(s) /\ s[a + n1] \in {".", ","} THEN 1 ELSE 0, LAMBDA sep :
    Let(RunLen(s, a + n1 + sep, Digits), LAMBDA n2 :
    Let(a + n1 + sep + n2 - 1, LAMBDA aEnd :
    Let(aEnd + 1 + RunLen(s, aEnd + 1, SpaceChars), LAMBDA b :
    Let(TokenEndAt(s, b, UpperLetters), LAMBDA bEnd :
    Let(bEnd + 1 + RunLen(s, bEnd + 1, SpaceChars), LAMBDA c :
    Let(VatEndAt(s, c), LAMBDA cEnd :
    Let(cEnd + 1 + RunLen(s, cEnd + 1, SpaceChars), LAMBDA d :
    Let(TokenEndAt(s, d, NumChars), LAMBDA dEnd :
    Let(dEnd + 1 + RunLen(s, dEnd + 1, SpaceChars), LAMBDA e :
    Let(NumberEndAt(s, e, 1), LAMBDA eEnd :
        IF /\ w0 >= 1
           /\ n1 >= 1
           /\ b > aEnd + 1
           /\ bEnd # 0
           /\ cEnd # 0
           /\ d > cEnd + 1
           /\ dEnd # 0
           /\ eEnd # 0
        THEN <<a, aEnd, b, bEnd, c, cEnd, d, dEnd, e, eEnd>>
        ELSE <<>>))))))))))))))

\* structuredPattern.exec(line) started at i: (\d{4})\s+(\d{6})\s+(.+?) and the
\* rest; the description is lazy, so it ends at the first position from which
\* the rest matches.  <<material start, description start, rest start>> or <<>>
StructuredAt(s, i) ==
    Let(RunLen(s, i + 4, SpaceChars), LAMBDA w1 :
    Let(i + 4 + w1, LAMBDA p2 :
    Let(RunLen(s, p2 + 6, SpaceChars), LAMBDA w2 :
    Let({p3 \in (p2 + 7)..(p2 + 6 + w2) :
            \E q \in (p3 + 1)..Len(s) : StructuredRestAt(s, q) # <<>>},
        LAMBDA Starts :
        IF AllDigits(s, i, 4) /\ w1 >= 1 /\ AllDigits(s, p2, 6) /\ Starts # {}
        THEN Let(CHOOSE p \in Starts : \A o \in Starts : o <= p, LAMBDA p3 :
             Let(Least({q \in (p3 + 1)..Len(s) : StructuredRestAt(s, q) # <<>>}), LAMBDA q :
                 <<p2, p3, q>>))
        ELSE <<>>))))

\* Strategy 1: the item of a candidate line, <<>> when the line does not match
StructuredItem(line) ==
    Let({i \in 1..Len(line) : StructuredAt(line, i) # <<>>}, LAMBDA I :
        IF I = {} THEN <<>>
        ELSE Let(Least(I), LAMBDA i :
             Let(StructuredAt(line, i), LAMBDA m :
             Let(StructuredRestAt(line, m[3]), LAMBDA r :
             Let(SubSeq(line, m[2], m[3] - 1), LAMBDA description :
             Let(SubSeq(line, r[1], r[2]), LAMBDA quantity :
             Let(LineItem(SubSeq(line, i, i + 3),
                          SubSeq(line, m[1], m[1] + 5),
                          trim(description),
                          parseFloat(ReplaceFirst(quantity, ",", <<".">>)),
                          SubSeq(line, r[3], r[4]),
                          SubSeq(line, r[5], r[6]),
                          parseAmount(SubSeq(line, r[7], r[8])),
                          parseAmount(SubSeq(line, r[9], r[10])),
                          classifyCostType(description)),
                 LAMBDA item :
                 IF item.positionTotal # Null THEN <<item>> ELSE <<>>)))))))

\* /^\d{4}$/, /^[\d.,]+-?$/, /^\d+[.,]?\d*$/ on one token
IsPositionToken(p) == Len(p) = 4 /\ AllDigits(p, 1, 4)
IsAmountToken(p) == Len(p) >= 1 /\ NumberEndAt(p, 1, 1) = Len(p)
IsQuantityToken(p) ==
    Let(RunLen(p, 1, Digits), LAMBDA n1 :
    Let(IF n1 + 1 <= Len(p) /\ p[n1 + 1] \in {".", ","} THEN 1 ELSE 0, LAMBDA sep :
    Let(RunLen(p, n1 + sep + 1, Digits), LAMBDA n2 :
        n1 >= 1 /\ n1 + sep + n2 = Len(p))))

\* Strategy 2, the loop "for (i = posIndex + 2; i < vatIndex - 2; i++)" with
\* 1-based indices: the description and the quantity it ends with
RECURSIVE FlexibleDescription(_, _, _, _)
FlexibleDescription(parts, i, vatIndex, description) ==
    IF i >= vatIndex - 2 THEN [description |-> description, quantity |-> Num(1000)]
    ELSE IF IsQuantityToken(parts[i]) /\ ~includes(description, parts[i])
    THEN [description |-> description,
          quantity |-> parseFloat(ReplaceFirst(parts[i], ",", <<".">>))]
    ELSE FlexibleDescription(parts, i + 1, vatIndex, description \o parts[i] \o <<" ">>)

\* Strategy 2 with the unit price read from the token before the VAT token
FlexibleItemPrecedingPrice(line) ==
    Let(SplitSpaces(trim(line)), LAMBDA parts :
    Let({i \in 1..Len(parts) : IsPositionToken(parts[i])}, LAMBDA Pos :
    Let({i \in 1..Len(parts) : TestVatAnchor(parts[i])}, LAMBDA Vat :
    Let(IF Pos = {} THEN 0 ELSE Least(Pos), LAMBDA posIndex :
    Let(IF Vat = {} THEN 0 ELSE Least(Vat), LAMBDA vatIndex :
    Let({i \in 1..Len(parts) : i > vatIndex /\ IsAmountToken(parts[i])}, LAMBDA Amt :
    Let(IF Amt = {} THEN 0 ELSE Least(Amt), LAMBDA amountIndex :
    Let(FlexibleDescription(parts, posIndex + 2, vatIndex, <<>>), LAMBDA d :
    Let(LineItem(parts[posIndex],
                 OrStr(At(parts, posIndex + 1), <<>>),
                 OrStr(trim(d.description), sUnknownService),
                 d.quantity,
                 OrStr(At(parts, vatIndex - 1), sPU),
                 parts[vatIndex],
                 OrZero(parseAmount(At(parts, vatIndex - 1))),
                 parseAmount(parts[amountIndex]),
                 classifyCostType(d.description)),
        LAMBDA item :
        IF posIndex >= 1 /\ vatIndex > posIndex /\ amountIndex > vatIndex
           /\ item.positionTotal # Null
        THEN <<item>>
        ELSE <<>>)))))))))

\* Strategy 2: the item of a candidate line, <<>> when the line is skipped
FlexibleItem(line) ==
    Let(SplitSpaces(trim(line)), LAMBDA parts :
    Let({i \in 1..Len(parts) : IsPositionToken(parts[i])}, LAMBDA Pos :
    Let({i \in 1..Len(parts) : TestVatAnchor(parts[i])}, LAMBDA Vat :
    Let(IF Pos = {} THEN 0 ELSE Least(Pos), LAMBDA posIndex :
    Let(IF Vat = {} THEN 0 ELSE Least(Vat), LAMBDA vatIndex :
    Let({i \in 1..Len(parts) : i > vatIndex /\ IsAmountToken(parts[i])}, LAMBDA Amt :
    Let(IF Amt = {} THEN 0 ELSE Least(Amt), LAMBDA amountIndex :
    Let(FlexibleDescription(parts, posIndex + 2, vatIndex, <<>>), LAMBDA d :
    Let(LineItem(parts[posIndex],
                 OrStr(At(parts, posIndex + 1), <<>>),
                 OrStr(trim(d.description), sUnknownService),
                 d.quantity,
                 OrStr(At(parts, vatIndex - 1), sPU),
                 parts[vatIndex],
                 OrZero(parseAmount(At(parts, vatIndex + 1))),
                 parseAmount(parts[amountIndex]),
                 classifyCostType(d.description)),
        LAMBDA item :
        IF posIndex >= 1 /\ vatIndex > posIndex /\ amountIndex > vatIndex
           /\ item.positionTotal # Null
        THEN <<item>>
        ELSE <<>>)))))))))

\* start of the trailing ([\d.,]+-?)$ that the lazy .*? reaches first from
\* position from on, 0 when the line does not end in an amount
TrailingAmountStart(s, from) ==
    Let({t \in from..Len(s) : NumberEndAt(s, t, 1) = Len(s)}, LAMBDA T :
        IF T = {} THEN 0 ELSE Least(T))

\* line.match(/(\d{4})\s+.*?(VAT).*?([\d.,]+-?)$/) started at i:
\* <<vat start, vat end, total start>> or <<>>
SimpleAt(s, i) ==
    Let({v \in (i + 5)..Len(s) : VatEndAt(s, v) # 0}, LAMBDA V :
    Let({v \in V : TrailingAmountStart(s, VatEndAt(s, v) + 1) # 0}, LAMBDA Ok :
        IF AllDigits(s, i, 4) /\ i + 4 <= Len(s) /\ IsSpace(s[i + 4]) /\ Ok # {}
        THEN Let(Least(Ok), LAMBDA v :
                 <<v, VatEndAt(s, v), TrailingAmountStart(s, VatEndAt(s, v) + 1)>>)
        ELSE <<>>))

\* line.match(/\d{4}\s+(\d{6})/): the capture, '' when there is no match
MaterialOf(s) ==
    LET Ok(i) == Let(RunLen(s, i + 4, SpaceChars), LAMBDA w :
                     AllDigits(s, i, 4) /\ w >= 1 /\ AllDigits(s, i + 4 + w, 6))
    IN
    Let({i \in 1..Len(s) : Ok(i)}, LAMBDA I :
        IF I = {} THEN <<>>
        ELSE Let(Least(I) + 4 + RunLen(s, Least(I) + 4, SpaceChars), LAMBDA p :
                 SubSeq(s, p, p + 5)))

\* line.replace(/^\d{4}\s+(\d{6}\s+)?/, '')
StripPositionMaterial(s) ==
    Let(RunLen(s, 5, SpaceChars), LAMBDA w1 :
    Let(RunLen(s, 5 + w1 + 6, SpaceChars), LAMBDA w2 :
        IF ~(AllDigits(s, 1, 4) /\ w1 >= 1) THEN s
        ELSE IF AllDigits(s, 5 + w1, 6) /\ w2 >= 1
        THEN SubSeq(s, 5 + w1 + 6 + w2, Len(s))
        ELSE SubSeq(s, 5 + w1, Len(s))))

\* description.replace(/\s+\d+[.,]?\d*.*$/, ''): cut at the first white space
\* that a digit follows
StripNumbers(s) ==
    Let({i \in 1..Len(s) :
            /\ IsSpace(s[i])
            /\ Let(RunLen(s, i, SpaceChars), LAMBDA w :
                       i + w <= Len(s) /\ IsDigit(s[i + w]))},
        LAMBDA I :
        IF I = {} THEN s ELSE SubSeq(s, 1, Least(I) - 1))

\* Strategy 3 with the unit price left at 0
SimpleItemNoUnitPrice(line) ==
    Let({i \in 1..Len(line) : SimpleAt(line, i) # <<>>}, LAMBDA I :
        IF I = {} THEN <<>>
        ELSE Let(Least(I), LAMBDA i :
             Let(SimpleAt(line, i), LAMBDA m :
             Let(parseAmount(SubSeq(line, m[3], Len(line))), LAMBDA total :
             Let(trim(StripNumbers(StripPositionMaterial(line))), LAMBDA description :
             Let(LineItem(SubSeq(line, i, i + 3),
                          MaterialOf(line),
                          OrStr(description, sServiceItem),
                          Num(1000),
                          sPU,
                          SubSeq(line, m[1], m[2]),
                          Num(0),
                          total,
                          classifyCostType(description)),
                 LAMBDA item :
                 IF total # Null THEN <<item>> ELSE <<>>))))))

\* Strategy 3: the item of a candidate line, <<>> when the line does not match
SimpleItem(line) ==
    Let({i \in 1..Len(line) : SimpleAt(line, i) # <<>>}, LAMBDA I :
        IF I = {} THEN <<>>
        ELSE Let(Least(I), LAMBDA i :
             Let(SimpleAt(line, i), LAMBDA m :
             Let(parseAmount(SubSeq(line, m[3], Len(line))), LAMBDA total :
             Let(trim(StripNumbers(StripPositionMaterial(line))), LAMBDA description :
             Let(LineItem(SubSeq(line, i, i + 3),
                          MaterialOf(line),
                          OrStr(description, sServiceItem),
                          Num(1000),
                          sPU,
                          SubSeq(line, m[1], m[2]),
                          total,
                          total,
                          classifyCostType(description)),
                 LAMBDA item :
                 IF total # Null THEN <<item>> ELSE <<>>))))))

\* the lines before the first boundary: lineItemSection, as line numbers
LineItemSection(lines) ==
    Let({i \in 1..Len(lines) : IsBoundary(lines[i])}, LAMBDA B :
        IF B = {} THEN 1..Len(lines) ELSE 1..(Least(B) - 1))

ItemOf(strategy, line) ==
    CASE strategy = "A" -> StructuredItem(line)
      [] strategy = "B" -> FlexibleItem(line)
      [] strategy = "C" -> SimpleItem(line)

\* one strategy's loop over candidateLines from line number i on: the items
\* it pushes, each with the number of the line it was read from
RECURSIVE StrategyItems(_, _, _, _)
StrategyItems(strategy, lines, section, i) ==
    IF i > Len(lines) THEN <<>>
    ELSE Let(IF i \in section /\ IsCandidateLine(lines[i])
             THEN ItemOf(strategy, lines[i]) ELSE <<>>,
             LAMBDA found :
         Let(IF found = <<>> THEN <<>>
             ELSE <<[item |-> found[1], line |-> i, strategy |-> strategy]>>,
             LAMBDA here :
             here \o StrategyItems(strategy, lines, section, i + 1)))

\* the whole of extractLineItems: the strategies that were attempted, in
\* order, and the items pushed (with the line and strategy of each)
LineItemRunAllStrategies(pageText) ==
    Let(SplitLines(pageText), LAMBDA lines :
    Let(LineItemSection(lines), LAMBDA section :
    Let(StrategyItems("A", lines, section, 1), LAMBDA a :
    Let(StrategyItems("B", lines, section, 1), LAMBDA b :
    Let(StrategyItems("C", lines, section, 1), LAMBDA c :
        [attempted |-> <<"A", "B", "C">>, found |-> a \o b \o c])))))

LineItemRun(pageText) ==
    Let(SplitLines(pageText), LAMBDA lines :
    Let(LineItemSection(lines), LAMBDA section :
    Let(StrategyItems("A", lines, section, 1), LAMBDA a :
    Let(StrategyItems("B", lines, section, 1), LAMBDA b :
    Let(StrategyItems("C", lines, section, 1), LAMBDA c :
        IF Len(a) > 0 THEN [attempted |-> <<"A">>, found |-> a]
        ELSE IF Len(b) > 0 THEN [attempted |-> <<"A", "B">>, found |-> b]
        ELSE [attempted |-> <<"A", "B", "C">>, found |-> c])))))

\* the array lineItems of a run
ItemsOf(run) == [k \in 1..Len(run.found) |-> run.found[k].item]

\* extractLineItems(pageText, pageNumber): the returned array lineItems
extractLineItems(pageText) == ItemsOf(LineItemRun(pageText))

(***************************************************************************)
(* Documents                                                               *)
(***************************************************************************)
\* the longest document, counted in lines over all its pages
MaxDocLines == 3

lnEmpty == <<>>
lnTotal100 == <<"T", "o", "t", "a", "l", " ", "1", "0", "0", ",", "0", "0">>
lnTotal250 == <<"T", "o", "t", "a", "l", " ", "2", "5", "0", ",", "0", "0">>
lnSubtotalNet300 == <<"S", "u", "b", "t", "o", "t", "a", "l", " ", "(", "N", "e", "t", ")", " ", "3", "0", "0", ",", "0", "0">>
lnSubtotal80 == <<"S", "u", "b", "t", "o", "t", "a", "l", " ", "8", "0", ",", "0", "0">>
lnPositionTotal == <<"P", "o", "s", "i", "t", "i", "o", "n", " ", "T", "o", "t", "a", "l">>
lnItemA == <<"0", "0", "1", "0", " ", "1", "2", "3", "4", "5", "6", " ", "H", "o", "s", "t", "i", "n", "g", " ", "2", " ", "P", "U", " ", "2", "1", "%", "(", "V", "1", ")", " ", "1", "0", ",", "0", "0", " ", "2", "0", ",", "0", "0">>
lnItemA2 == <<"0", "0", "2", "0", " ", "6", "5", "4", "3", "2", "1", " ", "O", "t", "h", "e", "r", " ", "S", "u", "p", "p", "o", "r", "t", " ", "1", " ", "P", "U", " ", "2", "1", "%", "(", "V", "1", ")", " ", "5", ",", "5", "0", " ", "5", ",", "5", "0">>
lnItemB == <<"0", "0", "3", "0", " ", "C", "o", "n", "s", "u", "l", "t", "i", "n", "g", " ", "w", "o", "r", "k", " ", "3", " ", "H", " ", "2", "1", "%", "(", "V", "1", ")", " ", "7", ",", "0", "0", " ", "2", "1", ",", "0", "0", "-">>
lnItemC == <<"A", "0", "0", "4", "0", " ", "A", "p", "p", "l", "i", "c", "a", "t", "i", "o", "n", " ", "f", "e", "e", " ", "2", "1", "%", "(", "V", "1", ")", " ", "E", "U", "R", "4", "0", ",", "0", "0">>
lnJan == <<"J", "A", "N", " ", "2", "0", "2", "4">>
lnVatId == <<"V", "A", "T", " ", "I", "D", ":", " ", "N", "L", "1", "2", "3">>

\* the lines the pages of each family of documents are made of
TotalLines == {lnTotal100, lnTotal250, lnSubtotalNet300, lnSubtotal80, lnPositionTotal}
ItemLines == {lnItemA, lnItemB, lnItemC, lnPositionTotal, lnTotal250}
HeaderLines == {lnEmpty, lnItemA, lnItemA2, lnJan, lnVatId}

\* the lines ls cut into pages after the line numbers in cuts
RECURSIVE CutPages(_, _, _)
CutPages(ls, cuts, from) ==
    Let({c \in cuts : c >= from}, LAMBDA later :
        IF later = {} THEN <<JoinLines(SubSeq(ls, from, Len(ls)))>>
        ELSE <<JoinLines(SubSeq(ls, from, Least(later)))>>
                 \o CutPages(ls, cuts, Least(later) + 1))

\* .filter(line => line.length > 0): an empty line stands only for a page
\* without text, so it has a page of its own
EmptyLinesAlone(ls, cuts) ==
    \A i \in 1..Len(ls) :
        Len(ls[i]) = 0 =>
            /\ i = 1 \/ (i - 1) \in cuts
            /\ i = Len(ls) \/ i \in cuts

\* every document of one page or more and at most MaxDocLines lines:
\* pageTexts, one string a page (a page without text is the string '')
Documents(alphabet) ==
    UNION {{CutPages(x[1], x[2], 1) :
               x \in {y \in [1..n -> alphabet] \X SUBSET (1..(n - 1)) :
                         EmptyLinesAlone(y[1], y[2])}} :
              n \in 1..MaxDocLines}

\* fullText of extractDataFromPDF: every page text followed by '\n'
RECURSIVE FullText(_)
FullText(texts) ==
    IF Len(texts) = 0 THEN <<>> ELSE texts[1] \o <<"\n">> \o FullText(Tail(texts))

(***************************************************************************)
(* extractInvoiceData as a state machine                                   *)
(***************************************************************************)
VARIABLES
    pageTexts,              \* the argument pageTexts
    pc,                     \* where extractInvoiceData stands
    pageIndex,              \* the number of pages the forEach has processed
    baseInvoiceInfo,        \* the invoice-level record
    lineItems,              \* the array lineItems
    allPageTotals,          \* the array allPageTotals
    extractedInvoiceTotal,  \* the variable extractedInvoiceTotal
    result,                 \* the returned array
    itemSource,             \* history: page, line and strategy of each item
    attempts,               \* history: strategies attempted on each page
    fileName,               \* the argument fileName
    runs,                   \* history: the arguments and result of each finished run
    calls,                  \* the extractDataFromPDF calls in progress, one frame each
    running,                \* the call whose synchronous part is executing, 0 for none
    callee,                 \* the function a direct call is made to, "" for none
    argument,               \* the argument of that call
    returned,               \* its return value, <<>> while it has not returned
    localStorage,           \* window.localStorage: under each key <<>> or <<the stored value>>
    indexedDB,              \* the object store costData: under each key <<>> or <<the stored data>>
    i2eDB                   \* the variable i2eDB: "null" or the opened database

vars == <<pageTexts, pc, pageIndex, baseInvoiceInfo, lineItems, allPageTotals,
          extractedInvoiceTotal, result, itemSource, attempts,
          fileName, runs, calls, running, callee, argument, returned,
         localStorage, indexedDB, i2eDB>>

\* what belongs to the callers of extractInvoiceData, which it never touches
callerVars == <<fileName, runs, calls, running, callee, argument, returned>>

storageVars == <<localStorage, indexedDB, i2eDB>>

\* no storage is used
NoStorage ==
    /\ localStorage = <<>>
    /\ indexedDB = <<>>
    /\ i2eDB = "null"

\* {...a, ...b}: the fields of b override those of a
Spread(a, b) ==
    [f \in DOMAIN a \cup DOMAIN b |-> IF f \in DOMAIN b THEN b[f] ELSE a[f]]

\* the header fields of baseInvoiceInfo that the claims read; the other
\* fields come from extractField with other pattern lists, and no line item
\* has a field of their names
BaseInvoiceInfo(fullText, name) ==
    [fileName |-> name, vat |-> extractFieldVat(fullText)]

\* no call of extractDataFromPDF and no direct call of a function is open
NoCaller ==
    /\ runs = <<>>
    /\ calls = <<>>
    /\ running = 0
    /\ callee = ""
    /\ argument = <<>>
    /\ returned = <<>>

InitWith(alphabet) ==
    /\ pageTexts \in Documents(alphabet)
    /\ fileName = "invoice.pdf"
    /\ pc = "pages"
    /\ pageIndex = 0
    /\ baseInvoiceInfo = BaseInvoiceInfo(FullText(pageTexts), fileName)
    /\ lineItems = <<>>
    /\ allPageTotals = <<>>
    /\ extractedInvoiceTotal = Null
    /\ result = <<>>
    /\ itemSource = <<>>
    /\ attempts = <<>>
    /\ NoCaller
    /\ NoStorage

Init == InitWith(HeaderLines)
InitTotals == InitWith(TotalLines)
InitItems == InitWith(ItemLines)

\* array.push(...pushed)
PushedFirst(array, pushed) == pushed \o array

Pushed(array, pushed) == array \o pushed

\* the record pushed for one item of a page
MergedItemDocumentPeriod(item, pageServicePeriod, pageNumber) ==
    Spread(Spread(Spread(baseInvoiceInfo,
                         [serviceProvisionPeriod |->
                             extractServicePeriodFromPage(FullText(pageTexts))]),
                  item),
           [pageNumber |-> pageNumber, extractedInvoiceTotal |-> Null])

MergedItemHeaderLast(item, pageServicePeriod, pageNumber) ==
    Spread(Spread(Spread([serviceProvisionPeriod |-> pageServicePeriod], item),
                  [pageNumber |-> pageNumber, extractedInvoiceTotal |-> Null]),
           baseInvoiceInfo)

MergedItem(item, pageServicePeriod, pageNumber) ==
    Spread(Spread(Spread(baseInvoiceInfo,
                         [serviceProvisionPeriod |-> pageServicePeriod]),
                  item),
           [pageNumber |-> pageNumber, extractedInvoiceTotal |-> Null])

\* one iteration of pageTexts.forEach
ProcessPage ==
    /\ pc = "pages"
    /\ pageIndex < Len(pageTexts)
    /\ Let(pageTexts[pageIndex + 1], LAMBDA pageText :
       Let(extractServicePeriodFromPage(pageText), LAMBDA pageServicePeriod :
       Let(extractInvoiceTotal(pageText), LAMBDA pageTotal :
       Let(LineItemRun(pageText), LAMBDA run :
       Let(ItemsOf(run), LAMBDA pageLineItems :
           /\ allPageTotals' =
                 IF pageTotal # Null
                 THEN Append(allPageTotals,
                             [amount |-> pageTotal,
                              pageNumber |-> pageIndex + 1,
                              pageText |-> pageText])
                 ELSE allPageTotals
           /\ lineItems' = Pushed(lineItems,
                 [k \in 1..Len(pageLineItems) |->
                     MergedItem(pageLineItems[k], pageServicePeriod, pageIndex + 1)])
           /\ itemSource' = itemSource \o
                 [k \in 1..Len(run.found) |->
                     [page |-> pageIndex + 1,
                      line |-> run.found[k].line,
                      strategy |-> run.found[k].strategy]]
           /\ attempts' = Append(attempts, run.attempted))))))
    /\ pageIndex' = pageIndex + 1
    /\ UNCHANGED <<pageTexts, pc, baseInvoiceInfo, extractedInvoiceTotal, result>>
    /\ UNCHANGED callerVars
    /\ UNCHANGED storageVars

\* totalCandidates: allPageTotals with the priority of each entry
TotalCandidates(pageTotals) ==
    [k \in 1..Len(pageTotals) |->
        Spread(pageTotals[k],
               [isMainTotal |-> hasMainTotal(pageTotals[k].pageText),
                isSubtotalOnly |-> hasSubtotalOnly(pageTotals[k].pageText),
                priority |-> PagePriority(pageTotals[k].pageText)])]

\* a.priority !== b.priority ? a.priority - b.priority : b.pageNumber - a.pageNumber
ComparesBeforeEarlierPage(a, b) ==
    \/ a.priority < b.priority
    \/ (a.priority = b.priority /\ a.pageNumber < b.pageNumber)

ComparesBefore(a, b) ==
    \/ a.priority < b.priority
    \/ (a.priority = b.priority /\ a.pageNumber > b.pageNumber)

\* totalCandidates[0] after the sort (page numbers differ, so the order is total)
BestCandidate(candidates) ==
    Let(CHOOSE k \in 1..Len(candidates) :
            \A j \in 1..Len(candidates) :
                j = k \/ ComparesBefore(candidates[k], candidates[j]),
        LAMBDA k :
        candidates[k])

\* "Choose the best total from all pages"
ChooseBestTotal ==
    /\ pc = "pages"
    /\ pageIndex = Len(pageTexts)
    /\ extractedInvoiceTotal' =
          IF Len(allPageTotals) > 0
          THEN BestCandidate(TotalCandidates(allPageTotals)).amount
          ELSE extractedInvoiceTotal
    /\ pc' = "update"
    /\ UNCHANGED <<pageTexts, pageIndex, baseInvoiceInfo, lineItems, allPageTotals,
                   result, itemSource, attempts>>
    /\ UNCHANGED callerVars
    /\ UNCHANGED storageVars

\* lineItems.forEach(item => item.extractedInvoiceTotal = extractedInvoiceTotal)
StampedKeepingFirst(items, total) ==
    [k \in 1..Len(items) |->
        IF k = 1 THEN items[k] ELSE [items[k] EXCEPT !.extractedInvoiceTotal = total]]

Stamped(items, total) ==
    [k \in 1..Len(items) |-> [items[k] EXCEPT !.extractedInvoiceTotal = total]]

\* lineItems.length > 0 ? lineItems : [{...baseInvoiceInfo, extractedInvoiceTotal}]
ReturnedNoFallback(items, base, total) == items

Returned(items, base, total) ==
    IF Len(items) > 0 THEN items
    ELSE <<Spread(base, [extractedInvoiceTotal |-> total])>>

\* "Update all line items with the final selected total" and return
UpdateAndReturn ==
    /\ pc = "update"
    /\ lineItems' = Stamped(lineItems, extractedInvoiceTotal)
    /\ result' = Returned(lineItems', baseInvoiceInfo, extractedInvoiceTotal)
    /\ pc' = "done"
    /\ UNCHANGED <<pageTexts, pageIndex, baseInvoiceInfo, allPageTotals,
                   extractedInvoiceTotal, itemSource, attempts>>
    /\ UNCHANGED callerVars
    /\ UNCHANGED storageVars

Next == ProcessPage \/ ChooseBestTotal \/ UpdateAndReturn

Spec == Init /\ [][Next]_vars
SpecTotals == InitTotals /\ [][Next]_vars
SpecItems == InitItems /\ [][Next]_vars

(***************************************************************************)
(* extractInvoiceData called again and again by one caller                 *)
(***************************************************************************)
\* the most calls one caller makes
MaxRuns == 3

\* the arguments (pageTexts, fileName) the calls are made with: a page with
\* an item and a total, two pages, a page with header text only
RunInputs ==
    [pageTexts : {<<JoinLines(<<lnItemA, lnTotal100>>)>>,
                  <<lnItemB, lnSubtotal80>>,
                  <<lnVatId>>},
     fileName : {"a.pdf", "b.pdf"}]

\* const lineItems = []; const allPageTotals = []; : the arrays are created
\* by the call, so a call starts with them empty
LeftLineItems == lineItems

NewLineItems == <<>>

NewAllPageTotals == <<>>

\* the state of extractInvoiceData when the forEach begins
Entered(input) ==
    /\ pageTexts' = input.pageTexts
    /\ fileName' = input.fileName
    /\ baseInvoiceInfo' = BaseInvoiceInfo(FullText(input.pageTexts), input.fileName)
    /\ lineItems' = NewLineItems
    /\ extractedInvoiceTotal' = Null
    /\ allPageTotals' = NewAllPageTotals
    /\ pageIndex' = 0
    /\ pc' = "pages"
    /\ result' = <<>>
    /\ itemSource' = <<>>
    /\ attempts' = <<>>

InitRuns ==
    /\ \E input \in RunInputs :
          /\ pageTexts = input.pageTexts
          /\ fileName = input.fileName
          /\ baseInvoiceInfo = BaseInvoiceInfo(FullText(input.pageTexts), input.fileName)
    /\ pc = "pages"
    /\ pageIndex = 0
    /\ lineItems = <<>>
    /\ allPageTotals = <<>>
    /\ extractedInvoiceTotal = Null
    /\ result = <<>>
    /\ itemSource = <<>>
    /\ attempts = <<>>
    /\ NoCaller
    /\ NoStorage

\* the caller takes the returned array and calls extractInvoiceData again
Invoke ==
    /\ pc = "done"
    /\ Len(runs) + 1 < MaxRuns
    /\ runs' = Append(runs, [pageTexts |-> pageTexts,
                             fileName |-> fileName,
                             result |-> result])
    /\ \E input \in RunInputs : Entered(input)
    /\ UNCHANGED <<calls, running, callee, argument, returned, storageVars>>

NextRuns == ProcessPage \/ ChooseBestTotal \/ UpdateAndReturn \/ Invoke

SpecRuns == InitRuns /\ [][NextRuns]_vars

(***************************************************************************)
(* extractDataFromPDF: several calls in progress at once                   *)
(***************************************************************************)
\* the most calls of extractDataFromPDF in progress at once
MaxCalls == 2

Calls == 1..MaxCalls

\* a file as pdf.js reads it: the lines of text of each of its pages in
\* reading order, or nothing it can read (getDocument rejects)
Files ==
    {[name |-> "a.pdf", readable |-> TRUE, pages |-> <<<<lnItemA, lnEmpty, lnTotal100>>>>],
     [name |-> "b.pdf", readable |-> TRUE, pages |-> <<<<lnItemB>>, <<lnSubtotal80>>>>],
     [name |-> "c.pdf", readable |-> TRUE, pages |-> <<<<>>>>],
     [name |-> "d.pdf", readable |-> FALSE, pages |-> <<>>]}

\* sortedY.map(...).filter(line => line.length > 0).join('\n')
PageTextOf(lines) ==
    JoinLines(SelectSeq([k \in 1..Len(lines) |-> trim(lines[k])],
                        LAMBDA line : Len(line) > 0))

\* let fullText = ''; const pageTexts = []; are variables of the call: the
\* frame that holds them is the call's own
SharedFrame(t) == 1

Frame(t) == t

\* throw new Error(`Failed to process PDF: ${error.message}`)
FailedToProcess(message) == [message |-> <<"Failed to process PDF: ", message>>]

\* the extractInvoiceData of no call is executing
Idle ==
    /\ pc = "idle"
    /\ pageTexts = <<>>
    /\ fileName = ""
    /\ pageIndex = 0
    /\ baseInvoiceInfo = <<>>
    /\ lineItems = <<>>
    /\ allPageTotals = <<>>
    /\ extractedInvoiceTotal = Null
    /\ result = <<>>
    /\ itemSource = <<>>
    /\ attempts = <<>>

pipelineVars == <<pageTexts, pc, pageIndex, baseInvoiceInfo, lineItems, allPageTotals,
                  extractedInvoiceTotal, result, itemSource, attempts, fileName>>

\* every call has been made and awaits file.arrayBuffer()
InitCalls ==
    /\ Idle
    /\ calls \in [Calls -> [file : Files,
                            at : {"arrayBuffer"},
                            pageNum : {0},
                            fullText : {<<>>},
                            pageTexts : {<<>>},
                            invoiceData : {<<>>},
                            error : {<<>>}]]
    /\ running = 0
    /\ runs = <<>>
    /\ callee = ""
    /\ argument = <<>>
    /\ NoStorage
    /\ returned = <<>>

\* a call goes on only while no other call is executing (run to completion)
Resumes(t, awaited) ==
    /\ running = 0
    /\ calls[t].at = awaited

\* const arrayBuffer = await file.arrayBuffer();
ResumeArrayBuffer(t) ==
    /\ Resumes(t, "arrayBuffer")
    /\ calls' = [calls EXCEPT ![t].at = "getDocument"]
    /\ UNCHANGED <<pipelineVars, runs, running, callee, argument, returned, storageVars>>

\* const pdf = await pdfjsLib.getDocument(...).promise; then the code up to
\* the first await of the loop, or the catch when the promise is rejected
ResumeGetDocument(t) ==
    /\ Resumes(t, "getDocument")
    /\ calls' =
          IF calls[t].file.readable
          THEN [calls EXCEPT ![t].at = "getPage",
                             ![t].pageNum = 1,
                             ![Frame(t)].fullText = <<>>,
                             ![Frame(t)].pageTexts = <<>>]
          ELSE [calls EXCEPT ![t].at = "thrown",
                             ![t].error = FailedToProcess("Invalid PDF structure.")]
    /\ UNCHANGED <<pipelineVars, runs, running, callee, argument, returned, storageVars>>

\* const page = await pdf.getPage(pageNum);
ResumeGetPage(t) ==
    /\ Resumes(t, "getPage")
    /\ calls' = [calls EXCEPT ![t].at = "getTextContent"]
    /\ UNCHANGED <<pipelineVars, runs, running, callee, argument, returned, storageVars>>

\* const textContent = await page.getTextContent(); the rest of the loop
\* body; then the next page, or after the last page the call of
\* extractInvoiceData, which runs without another await
ResumeGetTextContent(t) ==
    /\ Resumes(t, "getTextContent")
    /\ Let(PageTextOf(calls[t].file.pages[calls[t].pageNum]), LAMBDA pageText :
       Let(calls[t].pageNum = Len(calls[t].file.pages), LAMBDA last :
           /\ calls' = [calls EXCEPT
                 ![Frame(t)].pageTexts = Append(@, pageText),
                 ![Frame(t)].fullText = @ \o pageText \o <<"\n">>,
                 ![t].pageNum = @ + 1,
                 ![t].at = IF last THEN "extractInvoiceData" ELSE "getPage"]
           /\ running' = IF last THEN t ELSE 0))
    /\ UNCHANGED <<pipelineVars, runs, callee, argument, returned, storageVars>>

\* extractInvoiceData(fullText, pageTexts, file.name)
CallExtractInvoiceData(t) ==
    /\ running = t
    /\ calls[t].at = "extractInvoiceData"
    /\ pc = "idle"
    /\ pageTexts' = calls[Frame(t)].pageTexts
    /\ fileName' = calls[t].file.name
    /\ baseInvoiceInfo' = BaseInvoiceInfo(calls[Frame(t)].fullText, calls[t].file.name)
    /\ lineItems' = NewLineItems
    /\ extractedInvoiceTotal' = Null
    /\ allPageTotals' = NewAllPageTotals
    /\ pageIndex' = 0
    /\ pc' = "pages"
    /\ result' = <<>>
    /\ itemSource' = <<>>
    /\ attempts' = <<>>
    /\ UNCHANGED <<runs, calls, running, callee, argument, returned, storageVars>>

\* return invoiceData;
ReturnInvoiceData(t) ==
    /\ running = t
    /\ pc = "done"
    /\ calls' = [calls EXCEPT ![t].at = "returned", ![t].invoiceData = result]
    /\ running' = 0
    /\ pc' = "idle"
    /\ UNCHANGED <<pageTexts, pageIndex, baseInvoiceInfo, lineItems, allPageTotals,
                   extractedInvoiceTotal, result, itemSource, attempts, fileName,
                   runs, callee, argument, returned, storageVars>>

NextCalls ==
    \/ \E t \in Calls : ResumeArrayBuffer(t)
    \/ \E t \in Calls : ResumeGetDocument(t)
    \/ \E t \in Calls : ResumeGetPage(t)
    \/ \E t \in Calls : ResumeGetTextContent(t)
    \/ \E t \in Calls : CallExtractInvoiceData(t)
    \/ ProcessPage
    \/ ChooseBestTotal
    \/ UpdateAndReturn
    \/ \E t \in Calls : ReturnInvoiceData(t)

SpecCalls == InitCalls /\ [][NextCalls]_vars

(***************************************************************************)
(* Direct calls of one function                                            *)
(***************************************************************************)
\* a call of the function fn is open on one of the arguments
InitCall(fn, arguments) ==
    /\ Idle
    /\ runs = <<>>
    /\ calls = <<>>
    /\ running = 0
    /\ callee = fn
    /\ argument \in arguments
    /\ returned = <<>>
    /\ NoStorage

\* the open call of fn returns value
Returns(fn, value) ==
    /\ callee = fn
    /\ returned = <<>>
    /\ returned' = <<value>>
    /\ UNCHANGED <<pipelineVars, runs, calls, running, callee, argument, storageVars>>

\* the longest amount token, its trailing '-' not counted
MaxTokenLen == 5

\* the tokens of digits, '.' and ',' with an optional trailing '-', and the
\* three tokens the documentation gives
AmountTokens ==
    ({body \o sign :
         body \in UNION {[1..n -> {"1", "2", ".", ","}] : n \in 0..MaxTokenLen},
         sign \in {<<>>, <<"-">>}}
        \ {<<>>})
    \cup {<<"1", ".", "2", "3", "4", ",", "5", "6">>,
          <<"1", "2", "3", "4", ",", "5", "6", "-">>,
          <<"5", "0">>}

ReturnParseAmount == Returns("parseAmount", parseAmount(argument))

SpecParseAmount == InitCall("parseAmount", AmountTokens) /\ [][ReturnParseAmount]_vars

(***************************************************************************)
(* Documents for Strategy 2 and for amounts without a digit                *)
(***************************************************************************)
lnFlexEarlyQuantity == <<"0", "0", "5", "0", " ", "6", "5", "4", "3", "2", "1", " ", "S", "u", "p", "p", "o", "r", "t", " ", "2", " ", "e", "x", "t", "r", "a", " ", "d", "a", "y", "s", " ", "H", " ", "2", "1", "%", "(", "V", "1", ")", " ", "9", ",", "0", "0", " ", "1", "8", ",", "0", "0">>
lnFlexNoPrice == <<"0", "0", "6", "0", " ", "O", "t", "h", "e", "r", " ", "s", "e", "r", "v", "i", "c", "e", " ", "P", "U", " ", "2", "1", "%", "(", "V", "1", ")", " ", "E", "U", "R", " ", "1", "2", ",", "0", "0">>
lnItemComma == <<"0", "0", "1", "0", " ", "1", "2", "3", "4", "5", "6", " ", "H", "o", "s", "t", "i", "n", "g", " ", "2", " ", "P", "U", " ", "2", "1", "%", "(", "V", "1", ")", " ", "1", "0", ",", "0", "0", " ", ",">>
lnTotalComma == <<"T", "o", "t", "a", "l", " ", ",">>

FlexLines == {lnItemB, lnFlexEarlyQuantity, lnFlexNoPrice, lnItemComma, lnTotalComma}

InitFlex == InitWith(FlexLines)

SpecFlex == InitFlex /\ [][Next]_vars

(***************************************************************************)
(* classifyCostType called directly                                        *)
(***************************************************************************)
MaxWords == 3

RECURSIVE JoinWith(_, _)
JoinWith(parts, separator) ==
    IF Len(parts) = 0 THEN <<>>
    ELSE IF Len(parts) = 1 THEN parts[1]
    ELSE parts[1] \o separator \o JoinWith(Tail(parts), separator)

DescriptionWords ==
    {<<"A", "p", "p", "l", "i", "c", "a", "t", "i", "o", "n">>, <<"I", "N", "F", "R", "A", "S", "T", "R", "U", "C", "T", "U", "R", "E">>, <<"e", "x", "t", "e", "r", "n", "a", "l">>, <<"M", "o", "t", "h", "e", "r">>,
     <<"C", "o", "n", "s", "u", "l", "t", "a", "n", "t">>, <<"S", "E", "R", "V", "I", "C", "E">>, <<"s", "u", "p", "p", "o", "r", "t">>, <<"H", "o", "s", "t", "i", "n", "g">>, <<"A", "p", "p", "s">>}

Descriptions ==
    {JoinWith(words, <<" ">>) :
        words \in UNION {[1..n -> DescriptionWords] : n \in 0..MaxWords}}

ReturnClassifyCostType == Returns("classifyCostType", classifyCostType(argument))

SpecClassify ==
    InitCall("classifyCostType", Descriptions) /\ [][ReturnClassifyCostType]_vars

(***************************************************************************)
(* extractServicePeriodFromPage called directly                            *)
(***************************************************************************)
MaxPeriodParts == 3

PeriodParts ==
    {<<"J", "a", "n", " ", "2", "0", "2", "4">>, <<"d", "e", "c", " ", "2", "0", "2", "3">>, <<"S", "e", "r", "v", "i", "c", "e", " ", "P", "e", "r", "i", "o", "d", ":", " ", "0", "2", "/", "2", "0", "2", "4">>, <<"0", "3", ".", "2", "0", "2", "4">>,
     <<"1", "3", "/", "2", "0", "2", "4">>, <<"S", "e", "r", "v", "i", "c", "e">>, <<"P", "e", "r", "i", "o", "d", ":", " ", "4", "/", "2", "0", "2", "4">>, <<"I", "n", "v", "o", "i", "c", "e">>}

RECURSIVE JoinEach(_, _)
JoinEach(parts, separators) ==
    IF Len(parts) = 1 THEN parts[1]
    ELSE parts[1] \o separators[1] \o JoinEach(Tail(parts), Tail(separators))

PeriodPages ==
    UNION {{JoinEach(parts, separators) :
               parts \in [1..n -> PeriodParts],
               separators \in [1..(n - 1) -> {<<" ">>, <<"\n">>}]} :
           n \in 1..MaxPeriodParts}

ReturnServicePeriod ==
    Returns("extractServicePeriodFromPage", extractServicePeriodFromPage(argument))

SpecPeriod ==
    InitCall("extractServicePeriodFromPage", PeriodPages) /\ [][ReturnServicePeriod]_vars

(***************************************************************************)
(* Documents whose totals only the fallback patterns find                  *)
(***************************************************************************)
lnTotal500 == <<"T", "o", "t", "a", "l", " ", "5", "0", "0">>
lnTotal0 == <<"T", "o", "t", "a", "l", " ", "0">>
lnTotalColon7 == <<"T", "o", "t", "a", "l", ":", " ", "7">>
lnSubtotal9 == <<"S", "u", "b", "t", "o", "t", "a", "l", " ", "9">>

FallbackLines == {lnTotal500, lnTotal0, lnTotalColon7, lnSubtotal9, lnTotal100}

InitFallback == InitWith(FallbackLines)

SpecFallback == InitFallback /\ [][Next]_vars

(***************************************************************************)
(* i2e-cache.js: the invoice workflow kept in localStorage                 *)
(***************************************************************************)
CACHE_KEYS ==
    [PENDING |-> "i2e_pending_invoices",
     APPROVED |-> "i2e_approved_invoices",
     REJECTED |-> "i2e_rejected_invoices"]

CacheKeyNames == {CACHE_KEYS.PENDING, CACHE_KEYS.APPROVED, CACHE_KEYS.REJECTED}

\* loadFromLocalStorage(key, defaultValue) on the storage given
loadFromLocalStorage(storage, key, defaultValue) ==
    IF storage[key] = <<>> THEN defaultValue ELSE storage[key][1]

\* the storage after saveToLocalStorage(key, data), which returns stored:
\* setItem either stores the value or throws and stores nothing
saveToLocalStorage(storage, key, data, stored) ==
    IF stored THEN [storage EXCEPT ![key] = <<data>>] ELSE storage

\* localStorage.removeItem(key)
removeItem(storage, key) == [storage EXCEPT ![key] = <<>>]

getPendingInvoices(storage) ==
    Let(loadFromLocalStorage(storage, CACHE_KEYS.PENDING, <<>>), LAMBDA pending :
        [k \in 1..Len(pending) |->
            [pending[k] EXCEPT !.source = IF @ = "new" THEN "cache" ELSE @]])

getApprovedInvoices(storage) == loadFromLocalStorage(storage, CACHE_KEYS.APPROVED, <<>>)

getRejectedInvoices(storage) == loadFromLocalStorage(storage, CACHE_KEYS.REJECTED, <<>>)

getAllInvoices(storage) ==
    getPendingInvoices(storage) \o getApprovedInvoices(storage) \o getRejectedInvoices(storage)

\* a findIndex that finds nothing
findIndexNothing(invoices, invoiceNumber) == 0

\* invoices.findIndex(inv => inv.invoiceNumber === invoiceNumber), 1-based:
\* 0 stands for -1
findIndexOfNumber(invoices, invoiceNumber) ==
    Let({k \in 1..Len(invoices) : invoices[k].invoiceNumber = invoiceNumber}, LAMBDA K :
        IF K = {} THEN 0 ELSE Least(K))

\* a splice that removes nothing
spliceNothing(array, index) == array

\* array.splice(index, 1)
splice(array, index) ==
    SubSeq(array, 1, index - 1) \o SubSeq(array, index + 1, Len(array))

\* extractInvoiceSummary: of the fields of the first item only those the
\* invoices of the model carry
extractInvoiceSummary(fullInvoiceData) ==
    IF Len(fullInvoiceData) = 0 THEN [lineItemCount |-> 0]
    ELSE [totalAmount |-> fullInvoiceData[1].extractedInvoiceTotal,
          lineItemCount |-> Len(fullInvoiceData)]

\* the cacheEntry of addPendingInvoice for a single invoice object
PendingEntry(invoiceData, now) ==
    [invoiceNumber |-> invoiceData.invoiceNumber,
     status |-> "pending",
     extractedDate |-> now,
     source |-> "new",
     fullInvoiceData |-> IF "fullInvoiceData" \in DOMAIN invoiceData
                         THEN invoiceData.fullInvoiceData
                         ELSE <<invoiceData>>,
     lastModified |-> now]

\* approvedSummary
ApprovedSummary(invoice, now, userId, comments) ==
    [invoiceNumber |-> invoice.invoiceNumber,
     status |-> "approved",
     approvalDate |-> now,
     approvedBy |-> userId,
     comments |-> comments,
     summary |-> extractInvoiceSummary(invoice.fullInvoiceData),
     lastModified |-> now]

\* rejectedSummary
RejectedSummary(invoice, now, userId, comments) ==
    [invoiceNumber |-> invoice.invoiceNumber,
     status |-> "rejected",
     rejectionDate |-> now,
     rejectedBy |-> userId,
     comments |-> comments,
     summary |-> extractInvoiceSummary(invoice.fullInvoiceData),
     lastModified |-> now]

MaxDecided == 2

InvoiceNumbers == {"INV-1", "INV-2"}
InvoiceInputs == [invoiceNumber : InvoiceNumbers \cup {""}, extractedInvoiceTotal : {100, 250}]
\* new Date().toISOString(): the times of the calls are not told apart
Times == {"now"}
UserIds == {"unknown"}

cacheVars == <<pipelineVars, runs, running, callee, argument, returned, indexedDB, i2eDB>>

InitCache ==
    /\ Idle
    /\ runs = <<>>
    /\ calls = <<>>
    /\ running = 0
    /\ callee = ""
    /\ argument = <<>>
    /\ returned = <<>>
    /\ localStorage = [key \in CacheKeyNames |-> <<>>]
    /\ indexedDB = <<>>
    /\ i2eDB = "null"

\* addPendingInvoice(invoiceData), a whole call; calls holds its frame
addPendingInvoice ==
    \E invoiceData \in InvoiceInputs, now \in Times, stored \in BOOLEAN :
        Let(getPendingInvoices(localStorage), LAMBDA read :
        Let(findIndexOfNumber(read, invoiceData.invoiceNumber), LAMBDA existingIndex :
        Let(IF existingIndex >= 1
            THEN [read EXCEPT ![existingIndex] = PendingEntry(invoiceData, now)]
            ELSE Append(read, PendingEntry(invoiceData, now)),
            LAMBDA pendingInvoices :
            IF invoiceData.invoiceNumber = ""
            THEN /\ calls' = <<[fn |-> "addPendingInvoice", invoiceData |-> invoiceData,
                                returned |-> FALSE]>>
                 /\ UNCHANGED localStorage
            ELSE /\ calls' = <<[fn |-> "addPendingInvoice", invoiceData |-> invoiceData,
                                existingIndex |-> existingIndex, returned |-> stored]>>
                 /\ localStorage' = saveToLocalStorage(localStorage, CACHE_KEYS.PENDING,
                                                       pendingInvoices, stored))))
        /\ UNCHANGED cacheVars

\* approveInvoice(invoiceNumber, userId), a whole call; calls holds its frame
approveInvoice ==
    \E invoiceNumber \in InvoiceNumbers, userId \in UserIds, now \in Times,
       pendingSaved \in BOOLEAN, approvedSaved \in BOOLEAN :
        Let(getPendingInvoices(localStorage), LAMBDA read :
        Let(findIndexOfNumber(read, invoiceNumber), LAMBDA invoiceIndex :
            IF invoiceIndex = 0
            THEN /\ calls' = <<[fn |-> "approveInvoice", invoiceNumber |-> invoiceNumber,
                                returned |-> FALSE]>>
                 /\ UNCHANGED localStorage
            ELSE /\ Len(getApprovedInvoices(localStorage))
                       + Len(getRejectedInvoices(localStorage)) < MaxDecided
                 /\ calls' = <<[fn |-> "approveInvoice", invoiceNumber |-> invoiceNumber,
                                pendingSaved |-> pendingSaved, approvedSaved |-> approvedSaved,
                                returned |-> pendingSaved /\ approvedSaved]>>
                 /\ localStorage' =
                       saveToLocalStorage(
                          saveToLocalStorage(localStorage, CACHE_KEYS.PENDING,
                                             splice(read, invoiceIndex), pendingSaved),
                          CACHE_KEYS.APPROVED,
                          Append(getApprovedInvoices(localStorage),
                                 ApprovedSummary(read[invoiceIndex], now, userId, "")),
                          approvedSaved)))
        /\ UNCHANGED cacheVars

\* rejectInvoice(invoiceNumber, userId), a whole call; calls holds its frame
rejectInvoice ==
    \E invoiceNumber \in InvoiceNumbers, userId \in UserIds, now \in Times,
       pendingSaved \in BOOLEAN, rejectedSaved \in BOOLEAN :
        Let(getPendingInvoices(localStorage), LAMBDA read :
        Let(findIndexOfNumber(read, invoiceNumber), LAMBDA invoiceIndex :
            IF invoiceIndex = 0
            THEN /\ calls' = <<[fn |-> "rejectInvoice", invoiceNumber |-> invoiceNumber,
                                returned |-> FALSE]>>
                 /\ UNCHANGED localStorage
            ELSE /\ Len(getApprovedInvoices(localStorage))
                       + Len(getRejectedInvoices(localStorage)) < MaxDecided
                 /\ calls' = <<[fn |-> "rejectInvoice", invoiceNumber |-> invoiceNumber,
                                pendingSaved |-> pendingSaved, rejectedSaved |-> rejectedSaved,
                                returned |-> pendingSaved /\ rejectedSaved]>>
                 /\ localStorage' =
                       saveToLocalStorage(
                          saveToLocalStorage(localStorage, CACHE_KEYS.PENDING,
                                             splice(read, invoiceIndex), pendingSaved),
                          CACHE_KEYS.REJECTED,
                          Append(getRejectedInvoices(localStorage),
                                 RejectedSummary(read[invoiceIndex], now, userId, "")),
                          rejectedSaved)))
        /\ UNCHANGED cacheVars

clearCache ==
    /\ calls' = <<[fn |-> "clearCache", returned |-> TRUE]>>
    /\ localStorage' =
          removeItem(removeItem(removeItem(localStorage, CACHE_KEYS.PENDING),
                                CACHE_KEYS.APPROVED),
                     CACHE_KEYS.REJECTED)
    /\ UNCHANGED cacheVars

NextCache == addPendingInvoice \/ approveInvoice \/ rejectInvoice \/ clearCache

SpecCache == InitCache /\ [][NextCache]_vars

\* ---------------------------------------------------------------------
\* The cost data: loadCostDataFromStorage and the IndexedDB wrapper
\* ---------------------------------------------------------------------

COST_DATA_KEY == "i2e_cost_data_cache"

\* the arrays of cost records that may be stored
CostData == {<<>>, <<"r1">>, <<"r1", "r2">>}

StorageKeys == {COST_DATA_KEY, CACHE_KEYS.PENDING}

\* initializeIndexedDB: the database held by i2eDB, else the one that
\* indexedDB.open gives when it succeeds (opened), else "null" (it throws)
initializeIndexedDB(db, opened) ==
    IF db # "null" THEN db ELSE IF opened THEN "I2E_Database" ELSE "null"

\* the value loadFromIndexedDB(key, null) resolves to, <<>> for null
loadFromIndexedDB(store, db, key, got) ==
    IF db = "null" \/ ~got \/ store[key] = <<>> THEN <<>> ELSE <<store[key][1]>>

costVars == <<pipelineVars, runs, running, callee, argument, returned>>

\* a page has been loaded: either store may hold cost data of earlier visits
InitCostData ==
    /\ Idle
    /\ runs = <<>>
    /\ calls = <<>>
    /\ running = 0
    /\ callee = ""
    /\ argument = <<>>
    /\ returned = <<>>
    /\ \E stored \in {<<>>} \cup {<<data>> : data \in CostData} :
           localStorage = [key \in StorageKeys |->
                              IF key = COST_DATA_KEY THEN stored ELSE <<>>]
    /\ \E stored \in {<<>>} \cup {<<data>> : data \in CostData} :
           indexedDB = [key \in {COST_DATA_KEY} |-> stored]
    /\ i2eDB = "null"

\* no call of loadCostDataFromStorage is in progress
NoLoadInProgress == IF calls = <<>> THEN TRUE ELSE calls[1].at = "returned"

\* loadCostDataFromStorage(key) is called and runs to its first await
loadCostDataFromStorage ==
    /\ NoLoadInProgress
    /\ \E key \in StorageKeys :
           calls' = <<IF key = COST_DATA_KEY
                      THEN [fn |-> "loadCostDataFromStorage", key |-> key,
                            at |-> "loadFromIndexedDB"]
                      ELSE [fn |-> "loadCostDataFromStorage", key |-> key,
                            at |-> "returned",
                            value |-> loadFromLocalStorage(localStorage, key, <<>>)]>>
    /\ UNCHANGED <<costVars, storageVars>>

\* await loadFromIndexedDB(key, null) completes and the call runs on to
\* its return or to the await of saveToIndexedDB
awaitLoadFromIndexedDB ==
    /\ calls # <<>>
    /\ calls[1].at = "loadFromIndexedDB"
    /\ \E opened \in BOOLEAN, got \in BOOLEAN :
        Let(initializeIndexedDB(i2eDB, opened), LAMBDA db :
        Let(loadFromIndexedDB(indexedDB, db, calls[1].key, got), LAMBDA indexedDBData :
        Let(loadFromLocalStorage(localStorage, calls[1].key, <<>>), LAMBDA localStorageData :
            /\ i2eDB' = db
            /\ calls' = <<IF indexedDBData # <<>>
                          THEN [calls[1] EXCEPT !.at = "returned"]
                                   @@ [value |-> indexedDBData[1]]
                          ELSE IF Len(localStorageData) > 0
                          THEN [calls[1] EXCEPT !.at = "saveToIndexedDB"]
                                   @@ [localStorageData |-> localStorageData]
                          ELSE [calls[1] EXCEPT !.at = "returned"]
                                   @@ [value |-> <<>>]>>)))
    /\ UNCHANGED <<costVars, localStorage, indexedDB>>

\* await saveToIndexedDB(key, localStorageData) completes and the call runs
\* on to its return: false when the database cannot be opened, true when put
\* succeeds, a rejection (caught at line 2270) when put fails
awaitSaveToIndexedDB ==
    /\ calls # <<>>
    /\ calls[1].at = "saveToIndexedDB"
    /\ \E opened \in BOOLEAN, put \in BOOLEAN :
        Let(initializeIndexedDB(i2eDB, opened), LAMBDA db :
            /\ i2eDB' = db
            /\ IF db # "null" /\ ~put
               THEN /\ UNCHANGED <<localStorage, indexedDB>>
                    /\ calls' = <<[fn |-> "loadCostDataFromStorage", key |-> calls[1].key,
                                   at |-> "returned", saved |-> "rejected",
                                   value |-> loadFromLocalStorage(localStorage,
                                                                  calls[1].key, <<>>)]>>
               ELSE /\ indexedDB' = IF db # "null"
                                    THEN [indexedDB EXCEPT ![calls[1].key] =
                                              <<calls[1].localStorageData>>]
                                    ELSE indexedDB
                    /\ localStorage' = removeItem(localStorage, calls[1].key)
                    /\ calls' = <<[fn |-> "loadCostDataFromStorage", key |-> calls[1].key,
                                   at |-> "returned",
                                   saved |-> IF db # "null" THEN "true" ELSE "false",
                                   value |-> calls[1].localStorageData]>>)
    /\ UNCHANGED costVars

\* the page is loaded again: the script starts with let i2eDB = null
reloadPage ==
    /\ NoLoadInProgress
    /\ i2eDB # "null"
    /\ i2eDB' = "null"
    /\ calls' = <<>>
    /\ UNCHANGED <<costVars, localStorage, indexedDB>>

NextCostData ==
    \/ loadCostDataFromStorage
    \/ awaitLoadFromIndexedDB
    \/ awaitSaveToIndexedDB
    \/ reloadPage

SpecCostData == InitCostData /\ [][NextCostData]_vars

\* ---------------------------------------------------------------------
\* deduplicateInvoices: the cache merged with an upload
\* ---------------------------------------------------------------------

\* invoice.name, "undefined" when the object has no such property
Property(invoice, name) ==
    IF name \in DOMAIN invoice THEN invoice[name] ELSE "undefined"

getInvoiceNumber(invoice) ==
    IF "invoiceNumber" \in DOMAIN invoice /\ invoice.invoiceNumber # ""
    THEN invoice.invoiceNumber
    ELSE IF "fullInvoiceData" \in DOMAIN invoice /\ Len(invoice.fullInvoiceData) > 0
    THEN Property(invoice.fullInvoiceData[1], "invoiceNumber")
    ELSE IF "summary" \in DOMAIN invoice
            /\ "invoiceNumber" \in DOMAIN invoice.summary
            /\ invoice.summary.invoiceNumber # ""
    THEN invoice.summary.invoiceNumber
    ELSE ""

convertUploadedToCacheFormat(uploadedInvoice, now) ==
    [invoiceNumber |-> getInvoiceNumber(uploadedInvoice),
     status |-> "pending",
     extractedDate |-> now,
     source |-> "upload",
     fullInvoiceData |-> <<uploadedInvoice>>,
     validationData |-> "null",
     lastModified |-> now]

mergeInvoiceData(existingInvoice, uploadedInvoice, now) ==
    Spread(convertUploadedToCacheFormat(uploadedInvoice, now),
           [status |-> existingInvoice.status,
            approvalDate |-> Property(existingInvoice, "approvalDate"),
            approvedBy |-> Property(existingInvoice, "approvedBy"),
            rejectionDate |-> Property(existingInvoice, "rejectionDate"),
            rejectedBy |-> Property(existingInvoice, "rejectedBy"),
            comments |-> Property(existingInvoice, "comments"),
            extractedDate |-> Property(existingInvoice, "extractedDate"),
            lastModified |-> now])

\* result.findIndex(cached => getInvoiceNumber(cached) === number), 1-based:
\* 0 stands for -1
findIndexByNumber(invoices, number) ==
    Let({k \in 1..Len(invoices) : getInvoiceNumber(invoices[k]) = number}, LAMBDA K :
        IF K = {} THEN 0 ELSE Least(K))

\* uploadedInvoices.forEach from element i on
RECURSIVE DeduplicateFrom(_, _, _, _)
DeduplicateFrom(merged, uploadedInvoices, i, now) ==
    IF i > Len(uploadedInvoices) THEN merged
    ELSE Let(findIndexByNumber(merged, getInvoiceNumber(uploadedInvoices[i])),
             LAMBDA existingIndex :
             DeduplicateFrom(
                 IF existingIndex >= 1
                 THEN [merged EXCEPT ![existingIndex] =
                          mergeInvoiceData(merged[existingIndex], uploadedInvoices[i], now)]
                 ELSE Append(merged, convertUploadedToCacheFormat(uploadedInvoices[i], now)),
                 uploadedInvoices, i + 1, now))

deduplicateInvoices(cachedInvoices, uploadedInvoices, now) ==
    DeduplicateFrom(cachedInvoices, uploadedInvoices, 1, now)

MaxUploaded == 2

\* the invoices of an Excel upload
UploadedInputs == [invoiceNumber : InvoiceNumbers \cup {""}, extractedInvoiceTotal : {300}]

UploadedLists == UNION {[1..n -> UploadedInputs] : n \in 0..MaxUploaded}

\* the time of the upload
UploadTimes == {"later"}

\* deduplicateInvoices(getAllInvoices(), uploadedInvoices), a whole call
mergeUpload ==
    /\ \E uploadedInvoices \in UploadedLists, now \in UploadTimes :
           calls' = <<[fn |-> "deduplicateInvoices",
                       cachedInvoices |-> getAllInvoices(localStorage),
                       uploadedInvoices |-> uploadedInvoices,
                       returned |-> deduplicateInvoices(getAllInvoices(localStorage),
                                                        uploadedInvoices, now)]>>
    /\ UNCHANGED <<cacheVars, localStorage>>

NextUpload == addPendingInvoice \/ approveInvoice \/ rejectInvoice \/ clearCache \/ mergeUpload

SpecUpload == InitCache /\ [][NextUpload]_vars

(***************************************************************************)
(* Properties of extractInvoiceData                                        *)
(***************************************************************************)
\* a returned record that stands for a line item (the header-only record has
\* no field position)
IsLineItemRecord(r) == "position" \in DOMAIN r

\* the lines of page p of the document
LinesOfPage(p) == SplitLines(pageTexts[p])

\* C1: once extractInvoiceData has returned, every returned line-item record
\* carries the same extractedInvoiceTotal, and it is the one total resolved
\* across the pages (the value a header-only record would carry): no record
\* keeps the null it was pushed with or the total of its own page.
C1_AllItemsCarryResolvedTotal ==
    pc = "done" =>
        \A k \in 1..Len(result) :
            /\ result[k].extractedInvoiceTotal = extractedInvoiceTotal
            /\ \A j \in 1..Len(result) :
                  result[j].extractedInvoiceTotal = result[k].extractedInvoiceTotal

\* C1 happens: a returned line item whose own page has a total of its own,
\* other than the resolved one the item carries
C1_Witness ==
    /\ pc = "done"
    /\ \E k \in 1..Len(result) :
          /\ IsLineItemRecord(result[k])
          /\ LET pageTotal == extractInvoiceTotal(pageTexts[result[k].pageNumber])
             IN  /\ pageTotal # Null
                 /\ result[k].extractedInvoiceTotal # Null
                 /\ pageTotal # result[k].extractedInvoiceTotal

\* the amounts of the candidates of the given kind ("Total" or "Subtotal")
\* that the lines of the document's pages yield
KindAmounts(kind) ==
    UNION {{potentialTotalsOf(pageTexts[p])[k].amount :
               k \in {k \in 1..Len(potentialTotalsOf(pageTexts[p])) :
                         potentialTotalsOf(pageTexts[p])[k].type = kind}} :
           p \in 1..Len(pageTexts)}

\* C2: whenever a line of some page yields a Total-kind candidate, the total
\* extractInvoiceData returns is the amount of a Total-kind candidate: no
\* Subtotal-kind candidate wins over it, on whichever page either stands.
C2_TotalKindBeatsSubtotalKind ==
    (pc = "done" /\ KindAmounts("Total") # {}) =>
        result[1].extractedInvoiceTotal \in KindAmounts("Total")

MaxOf(S) == CHOOSE x \in S : \A y \in S : y <= x

C4_PriorityIsTheLineKind ==
    /\ \A k \in 1..Len(allPageTotals) :
          LET c == TotalCandidates(allPageTotals)[k]
              perLine == potentialTotalsOf(c.pageText)
          IN  /\ c.priority \in {1, 2}
              /\ Len(perLine) > 0 => c.priority = perLine[1].priority
    /\ \A p \in 1..pageIndex :
          LET perLine == potentialTotalsOf(pageTexts[p])
          IN  Len(perLine) > 0 =>
                 Cardinality({k \in 1..Len(allPageTotals) :
                                 allPageTotals[k].pageNumber = p}) = Len(perLine)

\* no page of the document yields a line item
NoPageHasItems ==
    \A p \in 1..Len(pageTexts) : Len(extractLineItems(pageTexts[p])) = 0

\* C5: until it has returned, extractInvoiceData has a step to take (the next
\* page, the choice of the total, or the return), whatever the pages hold,
\* and what it returns is never empty: it is one or more
\* line-item records when some page yields a line item, and exactly one
\* header-only record (the header fields and the resolved total, no line-item
\* field) when no page yields one.
C5_ReturnsItemsOrOneHeaderRecord ==
    /\ pc # "done" =>
          \/ pc = "pages" /\ pageIndex < Len(pageTexts)
          \/ pc = "pages" /\ pageIndex = Len(pageTexts)
          \/ pc = "update"
    /\ pc = "done" =>
          /\ Len(result) >= 1
          /\ IF NoPageHasItems
             THEN /\ Len(result) = 1
                  /\ ~IsLineItemRecord(result[1])
                  /\ DOMAIN result[1] =
                        DOMAIN baseInvoiceInfo \cup {"extractedInvoiceTotal"}
                  /\ \A f \in DOMAIN baseInvoiceInfo :
                        result[1][f] = baseInvoiceInfo[f]
                  /\ result[1].extractedInvoiceTotal = extractedInvoiceTotal
             ELSE \A k \in 1..Len(result) : IsLineItemRecord(result[k])

\* C5 happens: a document of several pages on none of which a field, a
\* total or a line item is found has been returned as one header-only record
C5_Witness ==
    /\ pc = "done"
    /\ Len(pageTexts) >= 2
    /\ NoPageHasItems
    /\ baseInvoiceInfo.vat = <<>>
    /\ extractedInvoiceTotal = Null
    /\ Len(result) = 1
    /\ ~IsLineItemRecord(result[1])

\* the line item that record k of lineItems was made from, read again from
\* the line of the page it came from
SourceItem(k) ==
    ItemOf(itemSource[k].strategy,
           LinesOfPage(itemSource[k].page)[itemSource[k].line])[1]

\* C6 (as stated): where the header defines vat (it found a value for it) and
\* the line item defines vat as well, the returned record carries the
\* header's value.
C6_HeaderValueWins ==
    (pc = "done" /\ baseInvoiceInfo.vat # <<>>) =>
        \A k \in 1..Len(itemSource) : result[k].vat = baseInvoiceInfo.vat

\* C6 (as the code has it): every returned line-item record carries the
\* header fields and the line item's fields, and for a field both define it
\* carries the line item's value.
C6_ItemValueWins ==
    pc = "done" =>
        \A k \in 1..Len(itemSource) :
            LET item == SourceItem(k)
            IN  /\ DOMAIN baseInvoiceInfo \cup DOMAIN item \subseteq DOMAIN result[k]
                /\ \A f \in DOMAIN item : result[k][f] = item[f]
                /\ \A f \in DOMAIN baseInvoiceInfo \ DOMAIN item :
                      result[k][f] = baseInvoiceInfo[f]

\* C6 happens: header and line item both found a vat, the two differ, and the
\* record has been returned
C6_Witness ==
    /\ pc = "done"
    /\ baseInvoiceInfo.vat # <<>>
    /\ \E k \in 1..Len(itemSource) :
          LET item == SourceItem(k)
          IN  /\ "vat" \in DOMAIN baseInvoiceInfo \cap DOMAIN item
              /\ item.vat # <<>>
              /\ item.vat # baseInvoiceInfo.vat

\* the items one strategy alone yields on page p
PageItemsBy(strategy, p) ==
    StrategyItems(strategy, LinesOfPage(p), LineItemSection(LinesOfPage(p)), 1)

\* page p has no candidate line before its first boundary
NoCandidateLines(p) ==
    \A i \in LineItemSection(LinesOfPage(p)) : ~IsCandidateLine(LinesOfPage(p)[i])

\* C7: on every page of a run that has returned, the strategies were
\* attempted in the order A, B, C, B only when A yielded no item and C only
\* when A and B both yielded none; a page without candidate lines had all
\* three attempted and yielded no item.
C7_StrategyCascade ==
    pc = "done" =>
        \A p \in 1..Len(attempts) :
            /\ attempts[p] \in {<<"A">>, <<"A", "B">>, <<"A", "B", "C">>}
            /\ Len(attempts[p]) >= 2 => Len(PageItemsBy("A", p)) = 0
            /\ Len(attempts[p]) >= 3 => Len(PageItemsBy("B", p)) = 0
            /\ \A k \in 1..Len(itemSource) :
                  itemSource[k].page = p =>
                     itemSource[k].strategy = attempts[p][Len(attempts[p])]
            /\ NoCandidateLines(p) =>
                  /\ attempts[p] = <<"A", "B", "C">>
                  /\ \A k \in 1..Len(itemSource) : itemSource[k].page # p

\* C7 happens: one page whose items come from B after A yielded none, and one
\* page without candidate lines on which A, B and C were all attempted
C7_Witness ==
    /\ pc = "done"
    /\ \E p, q \in 1..Len(attempts) :
          /\ attempts[p] = <<"A", "B">>
          /\ \E k \in 1..Len(itemSource) :
                itemSource[k].page = p /\ itemSource[k].strategy = "B"
          /\ NoCandidateLines(q)
          /\ attempts[q] = <<"A", "B", "C">>

\* a Total or Subtotal line that is not a "Position ... Total" header
IsTotalsLine(line) ==
    /\ \E i \in 1..Len(line) : WordAt(line, i, sTotal) \/ WordAt(line, i, sSubtotal)
    /\ ~TestPositionTotal(line)

\* C8: no returned line item comes from a line at or after the first Total or
\* Subtotal line of its page; a "Position ... Total" header is no such line,
\* so a candidate line after it and before the first Total or Subtotal line
\* that the page's strategy can read still yields its item.
C8_NoItemPastTheBoundary ==
    pc = "done" =>
        /\ \A k \in 1..Len(itemSource) :
              \A j \in 1..itemSource[k].line :
                  ~IsTotalsLine(LinesOfPage(itemSource[k].page)[j])
        /\ \A p \in 1..Len(attempts) :
              LET lines == LinesOfPage(p)
              IN  \A i \in 1..Len(lines) :
                      (/\ \A j \in 1..i : ~IsTotalsLine(lines[j])
                       /\ IsCandidateLine(lines[i])
                       /\ Len(ItemOf(attempts[p][Len(attempts[p])], lines[i])) > 0)
                      => \E k \in 1..Len(itemSource) :
                            itemSource[k].page = p /\ itemSource[k].line = i

\* C8 happens: an item is returned from a line that stands below a
\* "Position Total" header and above a Total or Subtotal line of its page
C8_Witness ==
    /\ pc = "done"
    /\ \E k \in 1..Len(itemSource) :
          LET lines == LinesOfPage(itemSource[k].page)
          IN  /\ \E h \in 1..(itemSource[k].line - 1) : TestPositionTotal(lines[h])
              /\ \E j \in (itemSource[k].line + 1)..Len(lines) : IsTotalsLine(lines[j])

\* C9: every returned line-item record names, as pageNumber, the page its
\* line stands on, and carries, as serviceProvisionPeriod, the period found on
\* that page alone ("Unknown Period" when that page has none), whatever
\* period the other pages hold.
C9_PageAndPeriodOfOwnPage ==
    pc = "done" =>
        \A k \in 1..Len(itemSource) :
            /\ result[k].pageNumber = itemSource[k].page
            /\ result[k].position = SourceItem(k).position
            /\ result[k].serviceProvisionPeriod =
                  extractServicePeriodFromPage(pageTexts[itemSource[k].page])

\* C9 happens: two returned items of different pages, one page with a period
\* and the other without
C9_Witness ==
    /\ pc = "done"
    /\ \E k, j \in 1..Len(itemSource) :
          /\ result[k].pageNumber # result[j].pageNumber
          /\ result[k].serviceProvisionPeriod # sUnknownPeriod
          /\ result[j].serviceProvisionPeriod = sUnknownPeriod

\* the line items of the first n pages, page after page, each page's in the
\* order extractLineItems returns them
RECURSIVE ItemsOfPages(_)
ItemsOfPages(n) ==
    IF n = 0 THEN <<>>
    ELSE LET items == extractLineItems(pageTexts[n])
         IN  ItemsOfPages(n - 1) \o
                [k \in 1..Len(items) |-> [page |-> n, item |-> items[k]]]

\* C10: the returned line items are ordered by page, and those of one page in
\* the order extractLineItems yields them: the k-th returned record is the
\* k-th item of the pages taken in order.
C10_PageOrderThenExtractionOrder ==
    (pc = "done" /\ Len(itemSource) > 0) =>
        LET expected == ItemsOfPages(Len(pageTexts))
        IN  /\ Len(result) = Len(expected)
            /\ \A k \in 1..Len(result) :
                  /\ result[k].pageNumber = expected[k].page
                  /\ \A f \in DOMAIN expected[k].item :
                        result[k][f] = expected[k].item[f]
            /\ \A k, j \in 1..Len(result) :
                  k < j =>
                     \/ result[k].pageNumber < result[j].pageNumber
                     \/ /\ result[k].pageNumber = result[j].pageNumber
                        /\ itemSource[k].line < itemSource[j].line

\* C10 happens: two different items of one page followed by an item of a
\* later page
C10_Witness ==
    /\ pc = "done"
    /\ \E k \in 1..(Len(itemSource) - 2) :
          /\ result[k].pageNumber = result[k + 1].pageNumber
          /\ result[k].position # result[k + 1].position
          /\ result[k + 1].pageNumber < result[k + 2].pageNumber

(***************************************************************************)
(* Properties of repeated calls                                            *)
(***************************************************************************)
\* the runs that have returned: arguments and returned array of each
FinishedRuns ==
    IF pc = "done"
    THEN Append(runs, [pageTexts |-> pageTexts, fileName |-> fileName, result |-> result])
    ELSE runs

\* C11: any two runs of extractInvoiceData on the same page texts and file
\* name return the same array, whatever runs (on this or on other documents)
\* came before or between them: nothing a run wrote reaches a later run.
C11_SameInputSameOutput ==
    \A i \in 1..Len(FinishedRuns) : \A j \in 1..Len(FinishedRuns) :
        (/\ FinishedRuns[i].pageTexts = FinishedRuns[j].pageTexts
         /\ FinishedRuns[i].fileName = FinishedRuns[j].fileName)
        => FinishedRuns[i].result = FinishedRuns[j].result

\* C11 happens: a document with line items was run, then another document,
\* then the first one again, and all three runs have returned
C11_Witness ==
    /\ pc = "done"
    /\ Len(runs) = 2
    /\ runs[1].pageTexts = pageTexts
    /\ runs[1].fileName = fileName
    /\ runs[2].pageTexts # pageTexts
    /\ \E k \in 1..Len(result) : IsLineItemRecord(result[k])
    /\ \E k \in 1..Len(runs[2].result) : IsLineItemRecord(runs[2].result[k])

(***************************************************************************)
(* Properties of concurrent calls of extractDataFromPDF                    *)
(***************************************************************************)
\* the records extractInvoiceData pushes for the pages p.. of texts
RECURSIVE AloneRecords(_, _, _)
AloneRecords(texts, base, p) ==
    IF p > Len(texts) THEN <<>>
    ELSE LET items == extractLineItems(texts[p])
             period == extractServicePeriodFromPage(texts[p])
         IN  [k \in 1..Len(items) |->
                 Spread(Spread(Spread(base, [serviceProvisionPeriod |-> period]),
                               items[k]),
                        [pageNumber |-> p, extractedInvoiceTotal |-> Null])]
             \o AloneRecords(texts, base, p + 1)

\* the entries of allPageTotals for the pages p.. of texts
RECURSIVE AloneTotals(_, _)
AloneTotals(texts, p) ==
    IF p > Len(texts) THEN <<>>
    ELSE LET pageTotal == extractInvoiceTotal(texts[p])
         IN  (IF pageTotal # Null
              THEN <<[amount |-> pageTotal, pageNumber |-> p, pageText |-> texts[p]]>>
              ELSE <<>>)
             \o AloneTotals(texts, p + 1)

\* what a call of extractDataFromPDF on the file returns when it is the only
\* call: extractInvoiceData of the file's own page texts and name
AloneResult(file) ==
    LET texts == [p \in 1..Len(file.pages) |-> PageTextOf(file.pages[p])]
        base == BaseInvoiceInfo(FullText(texts), file.name)
        totals == AloneTotals(texts, 1)
        total == IF Len(totals) > 0
                 THEN BestCandidate(TotalCandidates(totals)).amount
                 ELSE Null
    IN  Returned(Stamped(AloneRecords(texts, base, 1), total), base, total)

\* C12: whatever the interleaving of the calls at their awaits, a call that
\* has returned has returned the array it returns when run alone on its file:
\* nothing of another call's document is in it or has changed it.
C12_ReturnsWhatItReturnsAlone ==
    \A t \in Calls :
        calls[t].at = "returned" => calls[t].invoiceData = AloneResult(calls[t].file)

\* C12 happens: call 1 has returned line items while call 2, on another
\* file, is between two pages with the text of its first page collected
C12_Witness ==
    /\ calls[1].at = "returned"
    /\ \E k \in 1..Len(calls[1].invoiceData) : IsLineItemRecord(calls[1].invoiceData[k])
    /\ calls[2].at = "getPage"
    /\ Len(calls[2].pageTexts) = 1
    /\ calls[2].file # calls[1].file

(***************************************************************************)
(* Properties of parseAmount                                               *)
(***************************************************************************)
\* the token with every c replaced by r
ReplaceAll(s, c, r) == [i \in 1..Len(s) |-> IF s[i] = c THEN r ELSE s[i]]

\* the algorithm of the documentation: strip a trailing '-'; with both
\* separators the later one is the decimal point and the other is removed;
\* a ',' alone is the decimal separator; parse; negate
ReferenceAmount(token) ==
    LET negative == Len(token) > 0 /\ token[Len(token)] = "-"
        body == IF negative THEN SubSeq(token, 1, Len(token) - 1) ELSE token
        hasDot == \E i \in 1..Len(body) : body[i] = "."
        hasComma == \E i \in 1..Len(body) : body[i] = ","
        normal == IF hasDot /\ hasComma
                  THEN IF lastIndexOf(body, ",") > lastIndexOf(body, ".")
                       THEN ReplaceAll(RemoveAll(body, "."), ",", ".")
                       ELSE RemoveAll(body, ",")
                  ELSE ReplaceAll(body, ",", ".")
        value == parseFloat(normal)
    IN  IF negative /\ IsNum(value) THEN Num(0 - value.v) ELSE value

\* the same number, or both no number
SameAmount(x, y) ==
    IF IsNum(x) \/ IsNum(y) THEN IsNum(x) /\ IsNum(y) /\ x.v = y.v ELSE TRUE

\* C13: on every token of digits, '.' and ',' with an optional trailing '-'
\* parseAmount returns what the algorithm of the documentation gives; so
\* "1.234,56" gives 1234.56, "1234,56-" gives -1234.56 and "50" gives 50.
C13_AgreesWithReference ==
    (callee = "parseAmount" /\ returned # <<>>) =>
        /\ SameAmount(returned[1], ReferenceAmount(argument))
        /\ argument = <<"1", ".", "2", "3", "4", ",", "5", "6">>
              => returned[1] = Num(1234560)
        /\ argument = <<"1", "2", "3", "4", ",", "5", "6", "-">>
              => returned[1] = Num(0 - 1234560)
        /\ argument = <<"5", "0">> => returned[1] = Num(50000)

\* C13 happens: a negative token with both separators, the '.' last, has
\* been parsed to a number
C13_Witness ==
    /\ callee = "parseAmount"
    /\ argument = <<"1", ",", "2", ".", "1", "-">>
    /\ returned # <<>>
    /\ IsNum(returned[1])

\* C14: no line item and no total candidate is ever recorded with an amount
\* that is not a number: a token without a digit makes parseAmount return the
\* value its callers test for (null), so the item or candidate is dropped.
C14_NoNonNumericAmountRecorded ==
    /\ \A k \in 1..Len(lineItems) : IsNum(lineItems[k].positionTotal)
    /\ \A k \in 1..Len(allPageTotals) : IsNum(allPageTotals[k].amount)

\* some word of the set stands in the description, in whatever case
ContainsAny(description, words) ==
    \E word \in words : TestLitI(description, word)

\* C15: classifyCostType checks its keywords in a fixed order, the first
\* match winning and case being ignored: Internal for a description holding
\* application or infrastructure, whatever else it holds; otherwise External
\* for one holding external, other, consultant, service or support; Internal
\* for one holding none of the keywords.
C15_FirstMatchWins ==
    returned # <<>> =>
        returned[1] =
            IF ContainsAny(argument, {sApplication, sInfrastructure}) THEN "Internal"
            ELSE IF ContainsAny(argument, {sExternal, sOther, sConsultant,
                                           sServiceWord, sSupport}) THEN "External"
            ELSE "Internal"

\* C15 happens: a description that holds an Internal keyword written in
\* capitals after an External keyword is classified Internal
C15_Witness ==
    /\ returned = <<"Internal">>
    /\ ContainsAny(argument, {sApplication, sInfrastructure})
    /\ ~includes(argument, sApplication) /\ ~includes(argument, sInfrastructure)
    /\ \E i \in 1..Len(argument) :
          /\ LitAt(argument, i, sSupport, TRUE)
          /\ \E j \in (i + 1)..Len(argument) : LitAt(argument, j, sInfrastructure, TRUE)

\* the positions of the page from which pattern(page, position) matches
MatchPositions(page, pattern(_, _)) ==
    {i \in 1..Len(page) : pattern(page, i) # <<>>}

\* the periods named by the bare MM/YYYY and MM.YYYY tokens of the page
\* whose month is in 1..12
ValidBarePeriods(page) ==
    {MonthNames[DigitsVal(BareMonthYearAt(page, i)[1])] \o <<" ">>
        \o BareMonthYearAt(page, i)[2] :
     i \in {i \in MatchPositions(page, BareMonthYearAt) :
               DigitsVal(BareMonthYearAt(page, i)[1]) \in 1..12}}

\* C16: on a page without a match of month abbreviation and year that holds
\* at least one bare MM/YYYY or MM.YYYY token with a month in 1..12,
\* extractServicePeriodFromPage returns the month name and year of such a
\* token (never "Unknown Period"), also when a token with a month out of
\* range stands earlier on the page.
C16_ValidBareTokenGivesPeriod ==
    (/\ returned # <<>>
     /\ MatchPositions(argument, MonthPatternAt) = {}
     /\ ValidBarePeriods(argument) # {}) =>
        returned[1] \in ValidBarePeriods(argument)

\* C17: the rules have a strict precedence. A page with a month abbreviation
\* followed by a year gives the period of the first such match, whatever
\* "Service ... Period MM/YYYY" text or bare token it holds and wherever;
\* without one, a "Service ... Period" match with a month in 1..12 gives the
\* period; only without both does the bare token decide.
C17_StrictPrecedence ==
    returned # <<>> =>
        LET abbreviations == MatchPositions(argument, MonthPatternAt)
            first == MonthPatternAt(argument,
                        CHOOSE i \in abbreviations : \A j \in abbreviations : i <= j)
            service == ServicePeriodMatch(argument)
            serviceValid == service # <<>> /\ DigitsVal(service[1]) \in 1..12
        IN  /\ abbreviations # {} =>
                  returned[1] = MonthNames[first[1]] \o <<" ">> \o first[2]
            /\ (abbreviations = {} /\ serviceValid) =>
                  returned[1] = MonthNames[DigitsVal(service[1])] \o <<" ">> \o service[2]
            /\ (abbreviations = {} /\ ~serviceValid) =>
                  returned[1] \in ValidBarePeriods(argument) \cup {sUnknownPeriod}

\* C17 happens: the abbreviation stands last on the page, after a bare token
\* and a "Service Period" text of other months, and decides
C17_Witness ==
    /\ argument = <<"0", "3", ".", "2", "0", "2", "4", " ", "S", "e", "r", "v", "i", "c", "e", " ", "P", "e", "r", "i", "o", "d", ":", " ", "0", "2", "/", "2", "0", "2", "4", "\n", "J", "a", "n", " ", "2", "0", "2", "4">>
    /\ returned = <<<<"J", "a", "n", "u", "a", "r", "y", " ", "2", "0", "2", "4">>>>

\* the page texts extractDataFromPDF hands to extractInvoiceData for a file
PageTextsOf(file) == [p \in 1..Len(file.pages) |-> PageTextOf(file.pages[p])]

\* C18: a call for a document whose page-text input is empty (no page holds
\* any text) does not return a result: it ends with a raised failure, which
\* reaches the caller as one error.
C18_EmptyInputRaisesOneError ==
    \A t \in Calls :
        (/\ calls[t].at \in {"returned", "thrown"}
         /\ \A p \in 1..Len(calls[t].file.pages) : PageTextsOf(calls[t].file)[p] = <<>>) =>
            /\ calls[t].at = "thrown"
            /\ calls[t].error # <<>>

\* the tokens of the line that returned record k was made from
PartsOf(k) == SplitSpaces(trim(LinesOfPage(itemSource[k].page)[itemSource[k].line]))

\* index of the first token of parts that satisfies test, 0 without one
FirstIndex(parts, test(_)) ==
    IF \E i \in 1..Len(parts) : test(parts[i])
    THEN CHOOSE i \in 1..Len(parts) :
            test(parts[i]) /\ \A j \in 1..(i - 1) : ~test(parts[j])
    ELSE 0

\* the parsed value of a token, 0 when it is absent or no amount
AmountOrZero(token) ==
    IF IsNum(parseAmount(token)) THEN parseAmount(token) ELSE Num(0)

\* the records Strategy 2 produced
FlexibleRecords == {k \in 1..Len(itemSource) : itemSource[k].strategy = "B"}

\* C19 (as stated): the unitPrice of an item of Strategy 2 is the parsed
\* value of the token immediately before the VAT token of its line, 0 when
\* that token is absent or no amount.
C19_UnitPricePrecedesVatAnchor ==
    pc = "done" =>
        \A k \in FlexibleRecords :
            result[k].unitPrice =
                AmountOrZero(At(PartsOf(k), FirstIndex(PartsOf(k), TestVatAnchor) - 1))

\* C19 (as the code has it): the unitPrice of an item of Strategy 2 is the
\* parsed value of the token immediately after the VAT token of its line, 0
\* when that token is absent or no amount.
C19_UnitPriceFollowsVatAnchor ==
    pc = "done" =>
        \A k \in FlexibleRecords :
            result[k].unitPrice =
                AmountOrZero(At(PartsOf(k), FirstIndex(PartsOf(k), TestVatAnchor) + 1))

\* C19 happens: an item of Strategy 2 with a unit price other than 0 and
\* other than the value of the token before the VAT token, and one whose
\* token after the VAT token is no amount, with unit price 0
C19_Witness ==
    /\ pc = "done"
    /\ \E k \in FlexibleRecords :
          /\ result[k].unitPrice # Num(0)
          /\ result[k].unitPrice #
                AmountOrZero(At(PartsOf(k), FirstIndex(PartsOf(k), TestVatAnchor) - 1))
    /\ \E k \in FlexibleRecords :
          /\ ~IsAmountToken(At(PartsOf(k), FirstIndex(PartsOf(k), TestVatAnchor) + 1))
          /\ result[k].unitPrice = Num(0)

\* C20: for an item of Strategy 2, the words of the description are tokens
\* that stand between the material token and the VAT token; if one of the
\* tokens between them is a bare integer or decimal, positionQuantity is the
\* value of such a token, and positionQuantity is 1 only when there is none.
C20_QuantityIsTheNumericToken ==
    pc = "done" =>
        \A k \in FlexibleRecords :
            LET parts == PartsOf(k)
                between == (FirstIndex(parts, IsPositionToken) + 2)
                              ..(FirstIndex(parts, TestVatAnchor) - 1)
                numeric == {i \in between : IsQuantityToken(parts[i])}
                words == SplitSpaces(result[k].positionDescription)
            IN  /\ \/ result[k].positionDescription = sUnknownService
                   \/ \A w \in 1..Len(words) : \E i \in between : parts[i] = words[w]
                /\ numeric # {} =>
                      \E i \in numeric :
                         result[k].positionQuantity =
                            parseFloat(ReplaceFirst(parts[i], ",", <<".">>))
                /\ numeric = {} => result[k].positionQuantity = Num(1000)

\* page p has a "Position Total" header, and no other line of it holds the
\* word Total
OnlyPositionTotalHeaders(p) ==
    /\ \E i \in 1..Len(LinesOfPage(p)) : TestPositionTotal(LinesOfPage(p)[i])
    /\ \A i \in 1..Len(LinesOfPage(p)) :
          TestLitI(LinesOfPage(p)[i], sTotal) => TestPositionTotal(LinesOfPage(p)[i])

\* C21: a "Position Total" header never contributes a total. A page whose
\* only lines holding the word Total are such headers gives no page total
\* (extractInvoiceTotal returns null for it), whatever follows the header.
C21_PositionTotalHeaderGivesNoTotal ==
    \A p \in 1..pageIndex :
        OnlyPositionTotalHeaders(p) =>
            \A k \in 1..Len(allPageTotals) : allPageTotals[k].pageNumber # p

\* the total recorded for page p, null when the page gave none
PageTotalOf(p) ==
    IF \E k \in 1..Len(allPageTotals) : allPageTotals[k].pageNumber = p
    THEN allPageTotals[CHOOSE k \in 1..Len(allPageTotals) :
                          allPageTotals[k].pageNumber = p].amount
    ELSE Null

\* every match of fallback pattern pat in s from position from on, in
\* document order, with the amount it holds
RECURSIVE AllPatternMatches(_, _, _)
AllPatternMatches(pat, s, from) ==
    LET I == {i \in from..Len(s) : PatternEndAt(pat, s, i) # 0}
    IN  IF I = {} THEN <<>>
        ELSE LET i == Least(I)
                 e == PatternEndAt(pat, s, i)
             IN  <<[at |-> i, amount |-> parseAmount(FirstNumber(SubSeq(s, i, e)))]>>
                    \o AllPatternMatches(pat, s, e + 1)

\* the matches of all fallback patterns whose parsed value is a number other
\* than 0
NonzeroMatches(s) ==
    UNION {{AllPatternMatches(pat, s, 1)[k] : k \in 1..Len(AllPatternMatches(pat, s, 1))} :
           pat \in 1..8}
        \ {m \in [at : 1..Len(s), amount : {Null, NaN, Num(0)}] : TRUE}

\* C22: on a page where the line scan yields no candidate, the total is the
\* amount of the last match, in document order, whose parsed value is not 0:
\* an earlier nonzero match is returned when the last match parses to 0,
\* and the total is null only when no fallback pattern has a nonzero match.
C22_LastNonzeroMatchWins ==
    \A p \in 1..pageIndex :
        Len(potentialTotalsOf(pageTexts[p])) = 0 =>
            LET matches == NonzeroMatches(pageTexts[p])
            IN  IF matches = {} THEN PageTotalOf(p) = Null
                ELSE \E m \in matches :
                        /\ \A n \in matches : n.at <= m.at
                        /\ PageTotalOf(p) = m.amount

\* the records Strategy 3 produced
SimpleRecords == {k \in 1..Len(itemSource) : itemSource[k].strategy = "C"}

\* C23: every returned line item that Strategy 3 produced has positionQuantity
\* 1 and a unitPrice equal to its positionTotal.
C23_SimpleItemQuantityOneUnitPriceTotal ==
    pc = "done" =>
        \A k \in SimpleRecords :
            /\ result[k].positionQuantity = Num(1000)
            /\ result[k].unitPrice = result[k].positionTotal

\* C23 happens: a returned item of Strategy 3 with a positionTotal other
\* than 0
C23_Witness ==
    /\ pc = "done"
    /\ \E k \in SimpleRecords :
          /\ IsNum(result[k].positionTotal)
          /\ result[k].positionTotal # Num(0)

\* the potential totals of page p in the order the line scan collected them
CollectedTotals(p) == ScanLines(LinesOfPage(p), 1, <<>>)

\* C24: on a page whose line scan collected potential totals, the page total
\* is the amount of the potential total of best priority (Total before
\* Subtotal) and, among those of that priority, of the one collected last,
\* that is the one standing later in the page.
C24_LaterPotentialTotalWinsTies ==
    \A p \in 1..pageIndex :
        Len(CollectedTotals(p)) > 0 =>
            \E b \in 1..Len(CollectedTotals(p)) :
                /\ \A k \in 1..Len(CollectedTotals(p)) :
                      \/ CollectedTotals(p)[b].priority < CollectedTotals(p)[k].priority
                      \/ /\ CollectedTotals(p)[b].priority = CollectedTotals(p)[k].priority
                         /\ k <= b
                /\ PageTotalOf(p) = CollectedTotals(p)[b].amount

\* the invoice numbers of the list stored under key
StoredNumbers(storage, key) ==
    {loadFromLocalStorage(storage, key, <<>>)[k].invoiceNumber :
        k \in 1..Len(loadFromLocalStorage(storage, key, <<>>))}

\* the step is a call of fn
IsCallOf(fn) == Len(calls') = 1 /\ calls'[1].fn = fn

\* the step appends to the list stored under key one entry for invoice
\* number n with the status given, and nothing else changes in that list
AppendsOne(key, n, status) ==
    LET before == loadFromLocalStorage(localStorage, key, <<>>)
        after == loadFromLocalStorage(localStorage', key, <<>>)
    IN  /\ Len(after) = Len(before) + 1
        /\ SubSeq(after, 1, Len(before)) = before
        /\ after[Len(after)].invoiceNumber = n
        /\ after[Len(after)].status = status

\* C25: approveInvoice(n) and rejectInvoice(n) move an invoice. With n in the
\* pending list and both saves succeeding, the call returns true, n is no
\* longer pending and one entry for n with status 'approved' (resp.
\* 'rejected') is appended to the approved (resp. rejected) list; with n not
\* in the pending list the call returns false and the three stored lists are
\* unchanged.
C25_MovesPendingInvoice ==
    [][/\ IsCallOf("approveInvoice") =>
             IF calls'[1].invoiceNumber \in StoredNumbers(localStorage, CACHE_KEYS.PENDING)
             THEN (calls'[1].pendingSaved /\ calls'[1].approvedSaved) =>
                     /\ calls'[1].returned = TRUE
                     /\ calls'[1].invoiceNumber
                           \notin StoredNumbers(localStorage', CACHE_KEYS.PENDING)
                     /\ AppendsOne(CACHE_KEYS.APPROVED, calls'[1].invoiceNumber, "approved")
                     /\ localStorage'[CACHE_KEYS.REJECTED] = localStorage[CACHE_KEYS.REJECTED]
             ELSE calls'[1].returned = FALSE /\ localStorage' = localStorage
       /\ IsCallOf("rejectInvoice") =>
             IF calls'[1].invoiceNumber \in StoredNumbers(localStorage, CACHE_KEYS.PENDING)
             THEN (calls'[1].pendingSaved /\ calls'[1].rejectedSaved) =>
                     /\ calls'[1].returned = TRUE
                     /\ calls'[1].invoiceNumber
                           \notin StoredNumbers(localStorage', CACHE_KEYS.PENDING)
                     /\ AppendsOne(CACHE_KEYS.REJECTED, calls'[1].invoiceNumber, "rejected")
                     /\ localStorage'[CACHE_KEYS.APPROVED] = localStorage[CACHE_KEYS.APPROVED]
             ELSE calls'[1].returned = FALSE /\ localStorage' = localStorage]_vars

\* C25 happens: approveInvoice has returned true, its invoice is in the
\* approved list and no longer pending while another invoice still is, and an
\* earlier rejectInvoice has left an entry in the rejected list
C25_Witness ==
    /\ Len(calls) = 1
    /\ calls[1].fn = "approveInvoice"
    /\ calls[1].returned = TRUE
    /\ calls[1].invoiceNumber \in StoredNumbers(localStorage, CACHE_KEYS.APPROVED)
    /\ calls[1].invoiceNumber \notin StoredNumbers(localStorage, CACHE_KEYS.PENDING)
    /\ StoredNumbers(localStorage, CACHE_KEYS.PENDING) # {}
    /\ StoredNumbers(localStorage, CACHE_KEYS.REJECTED) # {}

\* C26: approveInvoice and rejectInvoice are all-or-nothing: whenever the
\* call returns false, also when one of its two writes failed, the stored
\* pending, approved and rejected lists are what they were before the call.
C26_FalseLeavesStorageAlone ==
    [][((IsCallOf("approveInvoice") \/ IsCallOf("rejectInvoice"))
           /\ calls'[1].returned = FALSE)
          => localStorage' = localStorage]_vars

\* the list stored under the pending key
StoredPending == loadFromLocalStorage(localStorage, CACHE_KEYS.PENDING, <<>>)

\* the invoice numbers of a list, in its order
NumbersInOrder(invoices) == [k \in 1..Len(invoices) |-> invoices[k].invoiceNumber]

\* C29: from the empty cache, after any calls of addPendingInvoice,
\* approveInvoice, rejectInvoice and clearCache the stored pending list has at
\* most one entry per invoice number, every entry has status 'pending' and a
\* non-empty invoiceNumber; adding an invoice whose number is already pending
\* replaces that entry in place and leaves the length of the list unchanged.
C29_PendingListWellFormed ==
    /\ [](\A k \in 1..Len(StoredPending) :
             /\ StoredPending[k].status = "pending"
             /\ StoredPending[k].invoiceNumber # ""
             /\ \A j \in 1..Len(StoredPending) :
                    StoredPending[j].invoiceNumber = StoredPending[k].invoiceNumber => j = k)
    /\ [][(/\ IsCallOf("addPendingInvoice")
           /\ calls'[1].invoiceData.invoiceNumber
                 \in StoredNumbers(localStorage, CACHE_KEYS.PENDING))
          => /\ NumbersInOrder(StoredPending') = NumbersInOrder(StoredPending)
             /\ calls'[1].returned = TRUE =>
                   \E k \in 1..Len(StoredPending) :
                       /\ StoredPending[k].invoiceNumber = calls'[1].invoiceData.invoiceNumber
                       /\ StoredPending'[k].fullInvoiceData = <<calls'[1].invoiceData>>
                       /\ StoredPending'[k].status = "pending"]_vars

\* C29 happens: with two invoices pending, the first one has been added again
\* with another total and has taken the place of the old entry
C29_Witness ==
    /\ Len(calls) = 1
    /\ calls[1].fn = "addPendingInvoice"
    /\ calls[1].returned = TRUE
    /\ Len(StoredPending) = 2
    /\ calls[1].existingIndex = 1
    /\ StoredPending[1].fullInvoiceData = <<calls[1].invoiceData>>
    /\ StoredPending[1].fullInvoiceData[1].extractedInvoiceTotal = 250
    /\ StoredPending[2].source = "cache"

\* C30: from the empty cache, after any calls of addPendingInvoice,
\* approveInvoice and rejectInvoice every invoice number is in at most one of
\* the stored pending, approved and rejected lists.
C30_OneWorkflowStatus ==
    /\ StoredNumbers(localStorage, CACHE_KEYS.PENDING)
          \cap StoredNumbers(localStorage, CACHE_KEYS.APPROVED) = {}
    /\ StoredNumbers(localStorage, CACHE_KEYS.PENDING)
          \cap StoredNumbers(localStorage, CACHE_KEYS.REJECTED) = {}
    /\ StoredNumbers(localStorage, CACHE_KEYS.APPROVED)
          \cap StoredNumbers(localStorage, CACHE_KEYS.REJECTED) = {}

\* C27: loadCostDataFromStorage removes the localStorage copy of
\* 'i2e_cost_data_cache' only after the data has been written to IndexedDB:
\* in every step, also when IndexedDB cannot be opened or the put fails, cost
\* data held by localStorage is afterwards still held by localStorage or by
\* IndexedDB.
C27_CostDataNeverLost ==
    [][\A data \in CostData :
          (Len(data) > 0 /\ localStorage[COST_DATA_KEY] = <<data>>)
             => \/ localStorage'[COST_DATA_KEY] = <<data>>
                \/ indexedDB'[COST_DATA_KEY] = <<data>>]_vars

\* the indices of the entries of a list that have the invoice number
IndicesOf(invoices, number) ==
    {k \in 1..Len(invoices) : getInvoiceNumber(invoices[k]) = number}

\* the entry is the cached one updated by an upload of the number: the data
\* of the upload, the status, approval and rejection metadata, comments and
\* extractedDate of the cached entry
IsMergeOf(entry, cached, uploadedInvoices) ==
    /\ \E u \in 1..Len(uploadedInvoices) :
           /\ getInvoiceNumber(uploadedInvoices[u]) = getInvoiceNumber(cached)
           /\ entry.fullInvoiceData = <<uploadedInvoices[u]>>
    /\ entry.status = cached.status
    /\ \A name \in {"approvalDate", "approvedBy", "rejectionDate", "rejectedBy",
                    "comments", "extractedDate"} :
           entry[name] = Property(cached, name)

\* C28: for every uploaded invoice whose number matches a cached entry the
\* result of deduplicateInvoices holds exactly one entry for that number, at
\* the position of the cached entry, with the data of the upload and the
\* status, approval/rejection metadata, comments and extractedDate of the
\* cached entry; uploaded invoices with new numbers are appended as 'pending'.
C28_UploadMergedIntoCache ==
    (Len(calls) = 1 /\ calls[1].fn = "deduplicateInvoices") =>
        \A u \in 1..Len(calls[1].uploadedInvoices) :
            LET number == getInvoiceNumber(calls[1].uploadedInvoices[u])
                cached == calls[1].cachedInvoices
                merged == calls[1].returned
            IN  IF IndicesOf(cached, number) # {}
                THEN \E k \in IndicesOf(cached, number) :
                        /\ IndicesOf(merged, number) = {k}
                        /\ IsMergeOf(merged[k], cached[k], calls[1].uploadedInvoices)
                ELSE \E k \in IndicesOf(merged, number) :
                        /\ k > Len(cached)
                        /\ merged[k].status = "pending"

\* the cached list of the call has no invoice number twice
CachedNumbersUnique ==
    \A j, k \in 1..Len(calls[1].cachedInvoices) :
        getInvoiceNumber(calls[1].cachedInvoices[j]) = getInvoiceNumber(calls[1].cachedInvoices[k])
            => j = k

====
